---------------------------- MODULE Spec2Model ----------------------------
(***************************************************************************)
(* A model of plotnine-mcp: the data-transform pipeline (transforms.py),   *)
(* template expansion and suggestion (templates.py), the specification     *)
(* resolvers of build_plot (plot_builder.py), the palette registry         *)
(* (palettes.py) and the suggestion helpers (error_utils.py).              *)
(*                                                                         *)
(* Each component is a pure function of its arguments.  A call is modelled *)
(* as a small state machine: Init draws the arguments from bounded sets,   *)
(* the actions run the function (the pipeline one loop iteration at a      *)
(* time), and the outcome (a returned value or a raised error) is kept in  *)
(* the state.  SpecT, SpecTpl, SpecB, SpecP and SpecS are the              *)
(* specifications of the five components.                                  *)
(***************************************************************************)
EXTENDS Integers, Sequences, FiniteSets, TLC

VARIABLES
    comp,       \* which component this behaviour exercises
    t_data,     \* apply_transforms: the caller's dataset
    t_steps,    \* apply_transforms: the list of transform steps
    t_i,        \* apply_transforms: number of loop iterations completed
    t_result,   \* apply_transforms: the local `result`
    t_pc,       \* apply_transforms: "loop", "returned" or "raised"
    t_error,    \* apply_transforms: the raised error, or NoError
    t_trace,    \* apply_transforms: the steps executed so far, each with its input dataset
    t_returned, \* apply_transforms: the dataset returned, or NoData
    call,       \* the other components: the operation called and its arguments
    outcome     \* the other components: what the call returned or raised

vars == <<comp, t_data, t_steps, t_i, t_result, t_pc, t_error, t_trace, t_returned, call, outcome>>

tvars == <<t_data, t_steps, t_i, t_result, t_pc, t_error, t_trace, t_returned>>

(***************************************************************************)
(* Python values.  None is the string NoneStr where the other values are   *)
(* strings; a dataset cell is a tagged record so that numbers, text and    *)
(* missing values can share a column.                                      *)
(***************************************************************************)
NoneStr == "<None>"

\* str(v) of a string or None, as an f-string prints it.
PyStr(v) == IF v = NoneStr THEN "None" ELSE v

IntCell(n) == [t |-> "int", v |-> n]
StrCell(s) == [t |-> "str", s |-> s]
NA == [t |-> "na"]

IsNA(c) == c.t = "na"

\* Python's truthiness of an Optional[str]: None and "" are falsy.
Truthy(s) == s # NoneStr /\ s # ""

(***************************************************************************)
(* String order (sorted(), groupby's key order, sort_values on text):      *)
(* code-point order, character by character.  Chars lists the characters   *)
(* the model uses in code-point order.                                     *)
(***************************************************************************)
RECURSIVE StrLess(_, _)
StrLess(a, b) ==
    LET
        Ord(c) ==
            LET
                Chars == " .0123456789ABCDEFGHIJKLMNOPQRSTUVWXYZ_abcdefghijklmnopqrstuvwxyz~"
            IN
            CHOOSE i \in 1..Len(Chars) : SubSeq(Chars, i, i) = c
    IN
        IF Len(a) = 0 THEN Len(b) > 0
        ELSE IF Len(b) = 0 THEN FALSE
        ELSE LET x == Ord(SubSeq(a, 1, 1))
                 y == Ord(SubSeq(b, 1, 1))
             IN  IF x # y THEN x < y
                 ELSE StrLess(SubSeq(a, 2, Len(a)), SubSeq(b, 2, Len(b)))

\* str.endswith
EndsWith(s, suffix) ==
    /\ Len(suffix) <= Len(s)
    /\ SubSeq(s, Len(s) - Len(suffix) + 1, Len(s)) = suffix

\* `sub in s` on strings
Contains(s, sub) ==
    \E i \in 1..(Len(s) - Len(sub) + 1) : SubSeq(s, i, i + Len(sub) - 1) = sub

\* The elements of a sequence, and membership in a list.
Range(seq) == {seq[i] : i \in 1..Len(seq)}

\* The order of two cells of one column; a missing value is never less.
CellLess(a, b) ==
    IF a.t = "int" /\ b.t = "int" THEN a.v < b.v
    ELSE IF a.t = "str" /\ b.t = "str" THEN StrLess(a.s, b.s)
    ELSE FALSE


(***************************************************************************)
(* Datasets (pandas DataFrames): the column names in order, the rows in    *)
(* order (each a record from column name to cell) and the row index.       *)
(***************************************************************************)
DataFrame(cols, rows) == [cols |-> cols, rows |-> rows, index |-> [i \in 1..Len(rows) |-> i - 1]]

\* DataFrame.reset_index(drop=True): the index becomes 0..n-1.
ResetIndex(data) == [data EXCEPT !.index = [i \in 1..Len(data.rows) |-> i - 1]]

\* The rows (and their index labels) at the given positions, in that order.
Take(data, pos) ==
    [cols  |-> data.cols,
     rows  |-> [k \in 1..Len(pos) |-> data.rows[pos[k]]],
     index |-> [k \in 1..Len(pos) |-> data.index[pos[k]]]]

\* The positions 1..n at which keep[i] holds, ascending.
RECURSIVE PositionsFrom(_, _)
PositionsFrom(keep, i) ==
    IF i > Len(keep) THEN <<>>
    ELSE (IF keep[i] THEN <<i>> ELSE <<>>) \o PositionsFrom(keep, i + 1)

\* What a step function returns: a dataset, or the exception it raised.
Ok(data) == [ok |-> TRUE, data |-> data]
Fail(cause) == [ok |-> FALSE, cause |-> cause]

(***************************************************************************)
(* apply_filter: data.query(filter_expr).  A query expression is modelled  *)
(* by its parse: a comparison of a column with a constant; an expression   *)
(* that does not parse has op "?".  query() keeps the index labels of the  *)
(* rows it keeps.                                                          *)
(***************************************************************************)
EvalCompare(cell, op, val) ==
    CASE op = "==" -> cell = val
      [] op = "!=" -> cell # val
      [] op = ">"  -> CellLess(val, cell)
      [] op = "<"  -> CellLess(cell, val)
      [] OTHER     -> FALSE

apply_filter(data, filter_expr) ==
    IF filter_expr.op \notin {"==", "!=", ">", "<"} \/ filter_expr.col \notin Range(data.cols)
    THEN {Fail("Filter error")}
    ELSE LET keep == [i \in 1..Len(data.rows) |->
                        EvalCompare(data.rows[i][filter_expr.col], filter_expr.op, filter_expr.val)]
         IN  {Ok(Take(data, PositionsFrom(keep, 1)))}

(***************************************************************************)
(* apply_select: data[columns].copy().                                     *)
(***************************************************************************)
apply_select(data, columns) ==
    IF \E k \in 1..Len(columns) : columns[k] \notin Range(data.cols)
    THEN {Fail("Select error")}
    ELSE {Ok([cols  |-> columns,
              rows  |-> [i \in 1..Len(data.rows) |-> [c \in Range(columns) |-> data.rows[i][c]]],
              index |-> data.index])}

(***************************************************************************)
(* apply_sort: data.sort_values(by, ascending).reset_index(drop=True).     *)
(* Missing values go last whatever the direction.  With one sort column    *)
(* pandas sorts with kind="quicksort", which is not a stable sort: rows    *)
(* with equal keys come out in an order the numpy build decides (the rows  *)
(* with a missing key are appended in their input order).  With several    *)
(* columns pandas uses a lexicographic sort, which is stable.               *)
(***************************************************************************)
\* A sort that ignores the direction asked for.
Before_AlwaysAscending(a, b, asc) ==
    IF IsNA(a) THEN FALSE
    ELSE IF IsNA(b) THEN TRUE
    ELSE CellLess(a, b)

\* Whether cell a sorts strictly before cell b in the given direction.
Before(a, b, asc) ==
    IF IsNA(a) THEN FALSE
    ELSE IF IsNA(b) THEN TRUE
    ELSE IF asc THEN CellLess(a, b) ELSE CellLess(b, a)

\* Lexicographic order of rows r and s on the sort columns from the k-th on.
RECURSIVE RowBefore(_, _, _, _, _)
RowBefore(r, s, sort_by, ascending, k) ==
    LET
        \* The direction of the k-th sort column.
        AscAt(ascending0, k0) == IF "all" \in DOMAIN ascending0 THEN ascending0.all ELSE ascending0.each[k0]
    IN
        IF k > Len(sort_by) THEN FALSE
        ELSE LET a == r[sort_by[k]]
                 b == s[sort_by[k]]
             IN  \/ Before(a, b, AscAt(ascending, k))
                 \/ /\ ~Before(b, a, AscAt(ascending, k))
                    /\ RowBefore(r, s, sort_by, ascending, k + 1)

\* The orders sort_values may produce: p[k] is the input position of output row k.
SortOrders(data, sort_by, ascending) ==
    LET
        Perms(n) == {p \in [1..n -> 1..n] : \A i, j \in 1..n : i # j => p[i] # p[j]}
    IN
        {p \in Perms(Len(data.rows)) :
            \A i, j \in 1..Len(data.rows) : i < j =>
                /\ ~RowBefore(data.rows[p[j]], data.rows[p[i]], sort_by, ascending, 1)
                /\ ((Len(sort_by) > 1 \/ IsNA(data.rows[p[i]][sort_by[1]]))
                        /\ ~RowBefore(data.rows[p[i]], data.rows[p[j]], sort_by, ascending, 1)
                        => p[i] < p[j])}

apply_sort(data, sort_by, ascending) ==
    IF \/ \E k \in 1..Len(sort_by) : sort_by[k] \notin Range(data.cols)
       \/ Len(sort_by) = 0
       \/ "each" \in DOMAIN ascending /\ Len(ascending.each) # Len(sort_by)
    THEN {Fail("Sort error")}
    ELSE {Ok(ResetIndex(Take(data, p))) : p \in SortOrders(data, sort_by, ascending)}

(***************************************************************************)
(* apply_group_summarize: data.groupby(group_by).agg(aggregations)         *)
(* .reset_index(), with multi-level column names flattened.  groupby       *)
(* drops the rows whose key has a missing value and orders the groups by   *)
(* key, ascending.  `aggregations` is the dict in order: each entry has    *)
(* the column and either one function name (fn) or a list of them (fns).   *)
(***************************************************************************)
AggFunctions == {"sum", "mean", "median", "min", "max", "count", "std", "var"}

\* The key of a row: its cells in the group_by columns.
KeyOf(row, group_by) == [k \in 1..Len(group_by) |-> row[group_by[k]]]

\* Lexicographic order of two keys.
RECURSIVE KeyLess(_, _, _)
KeyLess(a, b, k) ==
    IF k > Len(a) THEN FALSE
    ELSE \/ CellLess(a[k], b[k])
         \/ a[k] = b[k] /\ KeyLess(a, b, k + 1)

\* A finite set of keys as a sequence in ascending order.
RECURSIVE SortKeys(_)
SortKeys(keys) ==
    IF keys = {} THEN <<>>
    ELSE LET m == CHOOSE x \in keys : \A y \in keys : ~KeyLess(y, x, 1)
         IN  <<m>> \o SortKeys(keys \ {m})

\* The keys groupby forms: those of the rows with no missing key cell.
GroupKeys(data, group_by) ==
    {KeyOf(data.rows[i], group_by) : i \in {j \in 1..Len(data.rows) :
        \A k \in 1..Len(group_by) : ~IsNA(data.rows[j][group_by[k]])}}

\* The non-missing cells of column col in the rows of one group, in row order.
GroupCells(data, group_by, key, col) ==
    LET keep == [i \in 1..Len(data.rows) |->
                    KeyOf(data.rows[i], group_by) = key /\ ~IsNA(data.rows[i][col])]
        pos  == PositionsFrom(keep, 1)
    IN  [k \in 1..Len(pos) |-> data.rows[pos[k]][col]]

\* One aggregate of the cells of a group.  sum, min, max and count are computed;
\* the floating-point aggregates are kept as the function applied to its cells.
Aggregate(fn, cells) ==
    LET
        RECURSIVE SumCells(_, _)
        SumCells(cells0, k0) == IF k0 > Len(cells0) THEN 0 ELSE cells0[k0].v + SumCells(cells0, k0 + 1)
        \* The sum of text cells is their concatenation.
        RECURSIVE ConcatCells(_, _)
        ConcatCells(cells0, k0) == IF k0 > Len(cells0) THEN "" ELSE cells0[k0].s \o ConcatCells(cells0, k0 + 1)
    IN
        CASE fn = "count" -> IntCell(Len(cells))
          [] fn = "sum"   -> IF \E k \in 1..Len(cells) : cells[k].t = "str"
                             THEN StrCell(ConcatCells(cells, 1))
                             ELSE IntCell(SumCells(cells, 1))
          [] fn = "min"   -> IF Len(cells) = 0 THEN NA
                             ELSE CHOOSE c \in Range(cells) : \A d \in Range(cells) : ~CellLess(d, c)
          [] fn = "max"   -> IF Len(cells) = 0 THEN NA
                             ELSE CHOOSE c \in Range(cells) : \A d \in Range(cells) : ~CellLess(c, d)
          [] OTHER        -> IF Len(cells) = 0 THEN NA ELSE [t |-> "float", fn |-> fn, of |-> cells]

\* The functions of one aggregations entry, and whether it is a list.
IsList(entry) == "fns" \in DOMAIN entry
\* The output columns after the group_by columns: (column, function) pairs in dict order.
RECURSIVE AggPairs(_, _)
AggPairs(aggregations, k) ==
    LET
        FnsOf(entry) == IF IsList(entry) THEN entry.fns ELSE <<entry.fn>>
    IN
        IF k > Len(aggregations) THEN <<>>
        ELSE [j \in 1..Len(FnsOf(aggregations[k])) |->
                [col |-> aggregations[k].col, fn |-> FnsOf(aggregations[k])[j]]]
             \o AggPairs(aggregations, k + 1)

apply_group_summarize(data, group_by, aggregations) ==
    LET
        \* The flattened name of an output column (transforms.py lines 56-58).
        FlatName(pair, multi0) == IF multi0 THEN pair.col \o "_" \o pair.fn ELSE pair.col
    IN
        LET pairs == AggPairs(aggregations, 1)
            multi == \E k \in 1..Len(aggregations) : IsList(aggregations[k])
            names == [k \in 1..Len(pairs) |-> FlatName(pairs[k], multi)]
            keys  == SortKeys(GroupKeys(data, group_by))
            bad   == \/ Len(group_by) = 0
                     \/ \E k \in 1..Len(group_by) : group_by[k] \notin Range(data.cols)
                     \/ Len(pairs) = 0
                     \/ \E k \in 1..Len(pairs) :
                           \/ pairs[k].col \notin Range(data.cols)
                           \/ pairs[k].fn \notin AggFunctions
                           \/ pairs[k].fn \in {"mean", "median", "std", "var"}
                                /\ \E i \in 1..Len(data.rows) : data.rows[i][pairs[k].col].t = "str"
                     \* reset_index cannot insert a key column the aggregates already hold
                     \/ \E k \in 1..Len(names) : names[k] \in Range(group_by)
        IN  IF bad THEN {Fail("Grouping error")}
            ELSE {Ok(DataFrame(group_by \o names,
                     [g \in 1..Len(keys) |->
                        [c \in Range(group_by) \cup Range(names) |->
                            IF c \in Range(group_by)
                            THEN keys[g][CHOOSE k \in 1..Len(group_by) : group_by[k] = c]
                            ELSE LET k == CHOOSE k \in 1..Len(names) : names[k] = c
                                 IN  Aggregate(pairs[k].fn,
                                               GroupCells(data, group_by, keys[g], pairs[k].col))]]))}

(***************************************************************************)
(* apply_rename: data.rename(columns=rename_map).  rename_map is the dict  *)
(* in order, each entry an old and a new name; names that are not columns  *)
(* are ignored.                                                            *)
(***************************************************************************)
Renamed(c, rename_map) ==
    IF \E k \in 1..Len(rename_map) : rename_map[k].old = c
    THEN rename_map[CHOOSE k \in 1..Len(rename_map) : rename_map[k].old = c].new
    ELSE c

apply_rename(data, rename_map) ==
    LET cols == [k \in 1..Len(data.cols) |-> Renamed(data.cols[k], rename_map)]
    IN  {Ok([cols  |-> cols,
             rows  |-> [i \in 1..Len(data.rows) |->
                          [c \in Range(cols) |->
                              data.rows[i][data.cols[CHOOSE k \in 1..Len(cols) : cols[k] = c]]]],
             index |-> data.index])}

(***************************************************************************)
(* apply_mutate: for each mutation in dict order, result[col] =            *)
(* result.eval(expr) on a copy of the data.  An expression is modelled by  *)
(* its parse: a binary arithmetic operation on two operands, each a column *)
(* name or an integer constant; an expression that does not parse has op   *)
(* "?".  Arithmetic on a missing value gives a missing value.              *)
(***************************************************************************)
OperandCell(row, x) == IF "const" \in DOMAIN x THEN IntCell(x.const) ELSE row[x.col]

EvalArith(op, a, b) ==
    LET
        \* Python's floor division.
        FloorDiv(a0, b0) == IF b0 > 0 THEN a0 \div b0 ELSE (0 - a0) \div (0 - b0)
    IN
        IF IsNA(a) \/ IsNA(b) THEN NA
        ELSE CASE op = "*"  -> IntCell(a.v * b.v)
               [] op = "+"  -> IntCell(a.v + b.v)
               [] op = "-"  -> IntCell(a.v - b.v)
               [] op = "//" -> IF b.v = 0 THEN [t |-> "float", fn |-> "inf", of |-> <<a>>]
                               ELSE IntCell(FloorDiv(a.v, b.v))

\* Whether result.eval(expr) raises: a syntax error, an unknown column, or text operands.
ExprFails(data, expr) ==
    LET
        OperandOk(data0, x) == "const" \in DOMAIN x \/ x.col \in Range(data0.cols)
    IN
        \/ expr.op \notin {"*", "+", "-", "//"}
        \/ ~OperandOk(data, expr.a)
        \/ ~OperandOk(data, expr.b)
        \/ \E i \in 1..Len(data.rows) :
              OperandCell(data.rows[i], expr.a).t = "str" \/ OperandCell(data.rows[i], expr.b).t = "str"

\* result[col_name] = values: the column is overwritten in place or appended.
Assign(data, col_name, values) ==
    LET cols == IF col_name \in Range(data.cols) THEN data.cols ELSE Append(data.cols, col_name)
    IN  [cols  |-> cols,
         rows  |-> [i \in 1..Len(data.rows) |->
                      [c \in Range(cols) |-> IF c = col_name THEN values[i] ELSE data.rows[i][c]]],
         index |-> data.index]

\* A mutate whose expressions all read the data as it came in.
MutateFrom_AgainstInput(result, mutations, k) ==
    LET RECURSIVE AssignFrom(_, _)
        AssignFrom(assigned, j) ==
            IF j > Len(mutations) THEN assigned
            ELSE AssignFrom(
                    Assign(assigned, mutations[j].col,
                           [i \in 1..Len(result.rows) |->
                               EvalArith(mutations[j].expr.op,
                                         OperandCell(result.rows[i], mutations[j].expr.a),
                                         OperandCell(result.rows[i], mutations[j].expr.b))]),
                    j + 1)
    IN  IF \E j \in k..Len(mutations) : ExprFails(result, mutations[j].expr)
        THEN Fail("Mutate error")
        ELSE Ok(AssignFrom(result, k))

RECURSIVE MutateFrom(_, _, _)
MutateFrom(result, mutations, k) ==
    IF k > Len(mutations) THEN Ok(result)
    ELSE IF ExprFails(result, mutations[k].expr) THEN Fail("Mutate error")
    ELSE MutateFrom(
            Assign(result, mutations[k].col,
                   [i \in 1..Len(result.rows) |->
                       EvalArith(mutations[k].expr.op,
                                 OperandCell(result.rows[i], mutations[k].expr.a),
                                 OperandCell(result.rows[i], mutations[k].expr.b))]),
            mutations, k + 1)

apply_mutate(data, mutations) == {MutateFrom(data, mutations, 1)}

(***************************************************************************)
(* apply_drop_na: data.dropna(subset=columns, how=how).reset_index(drop).  *)
(* columns is a list, or <<NoneStr>> for None (all columns).               *)
(***************************************************************************)
IsNoneList(columns) == columns = <<NoneStr>>

apply_drop_na(data, columns, how) ==
    LET subset == IF IsNoneList(columns) THEN data.cols ELSE columns
    IN  IF how \notin {"any", "all"} \/ \E k \in 1..Len(subset) : subset[k] \notin Range(data.cols)
        THEN {Fail("Drop NA error")}
        ELSE LET keep == [i \in 1..Len(data.rows) |->
                            IF how = "any"
                            THEN \A k \in 1..Len(subset) : ~IsNA(data.rows[i][subset[k]])
                            ELSE Len(subset) = 0 \/ \E k \in 1..Len(subset) : ~IsNA(data.rows[i][subset[k]])]
             IN  {Ok(ResetIndex(Take(data, PositionsFrom(keep, 1))))}

(***************************************************************************)
(* apply_unique: data.drop_duplicates(subset=columns).reset_index(drop).   *)
(***************************************************************************)
apply_unique(data, columns) ==
    LET subset == IF IsNoneList(columns) THEN data.cols ELSE columns
    IN  IF \E k \in 1..Len(subset) : subset[k] \notin Range(data.cols)
        THEN {Fail("Unique error")}
        ELSE LET keep == [i \in 1..Len(data.rows) |->
                            ~\E j \in 1..(i - 1) : KeyOf(data.rows[j], subset) = KeyOf(data.rows[i], subset)]
             IN  {Ok(ResetIndex(Take(data, PositionsFrom(keep, 1))))}

(***************************************************************************)
(* apply_fill_na: on a copy, result.fillna(method=method) if a method is   *)
(* given, else result.fillna(fill_values).  pandas knows the methods       *)
(* "ffill"/"pad" and "bfill"/"backfill"; any other name is a ValueError,   *)
(* and a pandas that no longer takes the method keyword (3.0) raises a     *)
(* TypeError for every name.                                               *)
(* fill_values is [scalar |-> cell], [each |-> the per-column dict in      *)
(* order] or [none |-> TRUE] for None.                                     *)
(***************************************************************************)
\* The last non-missing cell of column c at or before row i (forward fill),
\* or the next one at or after row i (backward fill); NA if there is none.
RECURSIVE FillFrom(_, _, _, _)
FillFrom(rows, c, i, step) ==
    IF i < 1 \/ i > Len(rows) THEN NA
    ELSE IF ~IsNA(rows[i][c]) THEN rows[i][c]
    ELSE FillFrom(rows, c, i + step, step)

\* The fill value fillna(fill_values) uses for column c, or NA for none.
FillValue(fill_values, c) ==
    IF "scalar" \in DOMAIN fill_values THEN fill_values.scalar
    ELSE IF \E k \in 1..Len(fill_values.each) : fill_values.each[k].col = c
         THEN fill_values.each[CHOOSE k \in 1..Len(fill_values.each) : fill_values.each[k].col = c].val
         ELSE NA

apply_fill_na(data, fill_values, method) ==
    LET
        FillMethods == {"ffill", "pad", "bfill", "backfill"}
    IN
        IF Truthy(method)
        THEN IF method \notin FillMethods THEN {Fail("Fill NA error")}
             ELSE LET step == IF method \in {"ffill", "pad"} THEN 0 - 1 ELSE 1
                  IN  {Ok([data EXCEPT !.rows =
                            [i \in 1..Len(data.rows) |->
                                [c \in Range(data.cols) |-> FillFrom(data.rows, c, i, step)]]]),
                       Fail("Fill NA error")}
        ELSE IF "none" \in DOMAIN fill_values THEN {Fail("Fill NA error")}
        ELSE {Ok([data EXCEPT !.rows =
                    [i \in 1..Len(data.rows) |->
                        [c \in Range(data.cols) |->
                            IF IsNA(data.rows[i][c]) THEN FillValue(fill_values, c)
                            ELSE data.rows[i][c]]]])}

(***************************************************************************)
(* apply_sample: data.sample(n=min(n, len(data)), random_state)            *)
(* .reset_index(drop), or data.sample(frac=frac, ...).  pandas draws the   *)
(* rows with RandomState(random_state).choice(len, size, replace=False),   *)
(* the first size positions of the generator's permutation of the rows.    *)
(* The permutation a seed gives is a function of the numpy build that the  *)
(* model does not compute: apply_sample_on takes it as generator, and      *)
(* apply_sample gives the results over all of them.  With random_state     *)
(* None the global generator is used, whose state the call does not set.   *)
(* n is an integer or NoneInt; frac is given in percent, or NoneInt.       *)
(***************************************************************************)
NoneInt == 0 - 1000

DefaultRandomState == 42

Min(a, b) == IF a < b THEN a ELSE b

\* round(frac * len) for a fraction in percent (Python rounds halves to even).
RoundFrac(pct, len) ==
    LET x == pct * len
        q == x \div 100
        r == x % 100
    IN  IF r > 50 \/ (r = 50 /\ q % 2 = 1) THEN q + 1 ELSE q

\* The orders of the positions 1..len.
RowOrders(len) == {q \in [1..len -> 1..len] : \A i, j \in 1..len : i # j => q[i] # q[j]}

\* A sample that does not seed the generator.
apply_sample_on_Unseeded(data, n, frac, random_state, generator) ==
    LET size == IF n # NoneInt THEN Min(n, Len(data.rows)) ELSE RoundFrac(frac, Len(data.rows))
    IN  IF (n = NoneInt /\ frac = NoneInt) \/ size < 0 \/ size > Len(data.rows)
        THEN {Fail("Sample error")}
        ELSE {Ok(ResetIndex(Take(data, SubSeq(q, 1, size)))) : q \in RowOrders(Len(data.rows))}

apply_sample_on(data, n, frac, random_state, generator) ==
    LET
        \* DataFrame.sample(size, random_state): the rows at the first size
        \* positions of the permutation.
        Sample(size) ==
            IF random_state # NoneInt /\ random_state < 0 THEN {Fail("Sample error")}
            ELSE IF size < 0 \/ size > Len(data.rows) THEN {Fail("Sample error")}
            ELSE IF random_state = NoneInt
            THEN {Ok(ResetIndex(Take(data, SubSeq(q, 1, size)))) : q \in RowOrders(Len(data.rows))}
            ELSE {Ok(ResetIndex(Take(data, SubSeq(generator, 1, size))))}
    IN
        IF n # NoneInt THEN Sample(Min(n, Len(data.rows)))
        ELSE IF frac # NoneInt
        THEN IF frac < 0 THEN {Fail("Sample error")} ELSE Sample(RoundFrac(frac, Len(data.rows)))
        ELSE {Fail("Sample error")}

apply_sample(data, n, frac, random_state) ==
    UNION {apply_sample_on(data, n, frac, random_state, generator) :
              generator \in RowOrders(Len(data.rows))}

(***************************************************************************)
(* apply_rolling: on a copy, result[new_column] =                          *)
(* result[column].rolling(window).<function>().  A window that is not full *)
(* or holds a missing value gives a missing value.                         *)
(***************************************************************************)
apply_rolling(data, column, window, function, new_column) ==
    LET
        RollingFunctions == {"mean", "sum", "min", "max", "std"}
        WindowCells(data0, column0, i0, window0) == [k \in 1..window0 |-> data0.rows[i0 - window0 + k][column0]]
    IN
        LET name == IF new_column = NoneStr THEN column \o "_rolling_" \o function ELSE new_column
        IN  IF \/ column \notin Range(data.cols)
               \/ window < 0
               \/ function \notin RollingFunctions
               \/ \E i \in 1..Len(data.rows) : data.rows[i][column].t = "str"
            THEN {Fail("Rolling error")}
            ELSE {Ok(Assign(data, name,
                     [i \in 1..Len(data.rows) |->
                        IF window = 0 \/ i < window THEN NA
                        ELSE LET cells == WindowCells(data, column, i, window)
                             IN  IF \E k \in 1..window : IsNA(cells[k]) THEN NA
                                 ELSE IF function = "std" /\ window = 1 THEN NA
                                 ELSE Aggregate(function, cells)]))}

(***************************************************************************)
(* apply_pivot: data.pivot_table(index, columns, values, aggfunc)          *)
(* .reset_index(): one row per index value, one column per value of        *)
(* `columns` (text), both in ascending order; a cell with no rows is       *)
(* missing.                                                                *)
(***************************************************************************)
PivotRows(data, index, columns, values) ==
    {i \in 1..Len(data.rows) :
        ~IsNA(data.rows[i][index]) /\ ~IsNA(data.rows[i][columns]) /\ ~IsNA(data.rows[i][values])}

apply_pivot(data, index, columns, values, aggfunc) ==
    IF \/ {index, columns, values} \ Range(data.cols) # {}
       \/ aggfunc \notin AggFunctions
       \/ \E i \in 1..Len(data.rows) : data.rows[i][columns].t = "int"
       \/ aggfunc \in {"mean", "median", "std", "var"}
            /\ \E i \in 1..Len(data.rows) : data.rows[i][values].t = "str"
       \/ Cardinality({index, columns, values}) < 3
    THEN {Fail("Pivot error")}
    ELSE LET live  == PivotRows(data, index, columns, values)
             ikeys == SortKeys({<<data.rows[i][index]>> : i \in live})
             ckeys == SortKeys({<<data.rows[i][columns]>> : i \in live})
             names == [k \in 1..Len(ckeys) |-> ckeys[k][1].s]
             cellsOf(ik, ck) ==
                LET keep == [i \in 1..Len(data.rows) |->
                                i \in live /\ data.rows[i][index] = ik /\ data.rows[i][columns] = ck]
                    pos  == PositionsFrom(keep, 1)
                IN  [k \in 1..Len(pos) |-> data.rows[pos[k]][values]]
         IN  IF index \in Range(names) THEN {Fail("Pivot error")}
             ELSE {Ok(DataFrame(<<index>> \o names,
                     [g \in 1..Len(ikeys) |->
                        [c \in {index} \cup Range(names) |->
                            IF c = index THEN ikeys[g][1]
                            ELSE LET ck == ckeys[CHOOSE k \in 1..Len(names) : names[k] = c][1]
                                 IN  IF Len(cellsOf(ikeys[g][1], ck)) = 0 THEN NA
                                     ELSE Aggregate(aggfunc, cellsOf(ikeys[g][1], ck))]]))}

(***************************************************************************)
(* apply_transforms (transforms.py lines 312-409).  A step is a dict: a    *)
(* record whose fields are its keys.  transform.get(key) is Get and        *)
(* transform[key], which raises KeyError for a missing key, is guarded by  *)
(* Has.                                                                    *)
(***************************************************************************)
Has(transform, key) == key \in DOMAIN transform

\* transform.get("type")
TypeOf(transform) == IF Has(transform, "type") THEN transform.type ELSE NoneStr

\* The keys transform[...] reads for each known type.
RequiredKeys(transform_type) ==
    CASE transform_type = "filter"          -> {"filter_expr"}
      [] transform_type = "group_summarize" -> {"group_by", "aggregations"}
      [] transform_type = "sort"            -> {"sort_by"}
      [] transform_type = "select"          -> {"columns"}
      [] transform_type = "rename"          -> {"rename_map"}
      [] transform_type = "mutate"          -> {"mutations"}
      [] transform_type = "drop_na"         -> {}
      [] transform_type = "fill_na"         -> {"fill_values"}
      [] transform_type = "sample"          -> {}
      [] transform_type = "unique"          -> {}
      [] transform_type = "rolling"         -> {"column", "window"}
      [] transform_type = "pivot"           -> {"index", "columns", "values"}
      [] OTHER                              -> {}

TransformTypes ==
    {"filter", "group_summarize", "sort", "select", "rename", "mutate", "drop_na",
     "fill_na", "sample", "unique", "rolling", "pivot"}

\* The body of the try block for one step: the possible outcomes of the step.
StepResults(result, transform) ==
    LET transform_type == TypeOf(transform)
    IN  IF transform_type \notin TransformTypes THEN {Fail("Unknown transform type: " \o PyStr(transform_type))}
        ELSE IF RequiredKeys(transform_type) \ DOMAIN transform # {} THEN {Fail("KeyError")}
        ELSE CASE transform_type = "filter" ->
                    apply_filter(result, transform.filter_expr)
               [] transform_type = "group_summarize" ->
                    apply_group_summarize(result, transform.group_by, transform.aggregations)
               [] transform_type = "sort" ->
                    apply_sort(result, transform.sort_by,
                               IF Has(transform, "ascending") THEN transform.ascending
                               ELSE [all |-> TRUE])
               [] transform_type = "select" ->
                    apply_select(result, transform.columns)
               [] transform_type = "rename" ->
                    apply_rename(result, transform.rename_map)
               [] transform_type = "mutate" ->
                    apply_mutate(result, transform.mutations)
               [] transform_type = "drop_na" ->
                    apply_drop_na(result,
                                  IF Has(transform, "columns") THEN transform.columns ELSE <<NoneStr>>,
                                  IF Has(transform, "how") THEN transform.how ELSE "any")
               [] transform_type = "fill_na" ->
                    apply_fill_na(result, transform.fill_values,
                                  IF Has(transform, "method") THEN transform.method ELSE NoneStr)
               [] transform_type = "sample" ->
                    apply_sample(result,
                                 IF Has(transform, "n") THEN transform.n ELSE NoneInt,
                                 IF Has(transform, "frac") THEN transform.frac ELSE NoneInt,
                                 IF Has(transform, "random_state") THEN transform.random_state
                                 ELSE DefaultRandomState)
               [] transform_type = "unique" ->
                    apply_unique(result,
                                 IF Has(transform, "columns") THEN transform.columns ELSE <<NoneStr>>)
               [] transform_type = "rolling" ->
                    apply_rolling(result, transform.column, transform.window,
                                  IF Has(transform, "function") THEN transform.function ELSE "mean",
                                  IF Has(transform, "new_column") THEN transform.new_column
                                  ELSE NoneStr)
               [] transform_type = "pivot" ->
                    apply_pivot(result, transform.index, transform.columns, transform.values,
                                IF Has(transform, "aggfunc") THEN transform.aggfunc ELSE "mean")

\* An error that counts the steps from 0.
TransformError_ZeroBased(i, transform, cause) ==
    [index |-> i, kind |-> TypeOf(transform), cause |-> cause]

\* The error of line 407: "Transform {i+1} ({transform_type}) failed: {str(e)}".
TransformError(i, transform, cause) ==
    [index |-> i + 1, kind |-> TypeOf(transform), cause |-> cause]

NoError == [index |-> 0, kind |-> NoneStr, cause |-> ""]
NoData == [none |-> TRUE]

\* A loop that carries on with the next step when a step fails.
TransformStep_SkipFailed ==
    /\ comp = "transforms"
    /\ t_pc = "loop"
    /\ t_i < Len(t_steps)
    /\ \E r \in StepResults(t_result, t_steps[t_i + 1]) :
          /\ t_trace' = Append(t_trace, [index |-> t_i + 1, input |-> t_result])
          /\ t_result' = IF r.ok THEN r.data ELSE t_result
          /\ t_i' = t_i + 1
    /\ UNCHANGED <<comp, t_data, t_steps, t_pc, t_error, t_returned, call, outcome>>

\* One iteration of the loop of lines 332-407, on the step at 0-based index t_i.
TransformStep ==
    /\ comp = "transforms"
    /\ t_pc = "loop"
    /\ t_i < Len(t_steps)
    /\ \E r \in StepResults(t_result, t_steps[t_i + 1]) :
          /\ t_trace' = Append(t_trace, [index |-> t_i + 1, input |-> t_result])
          /\ IF r.ok
             THEN /\ t_result' = r.data
                  /\ t_i' = t_i + 1
                  /\ UNCHANGED <<t_pc, t_error>>
             ELSE /\ t_pc' = "raised"
                  /\ t_error' = TransformError(t_i, t_steps[t_i + 1], r.cause)
                  /\ UNCHANGED <<t_result, t_i>>
    /\ UNCHANGED <<comp, t_data, t_steps, t_returned, call, outcome>>

\* Line 409: return result.
TransformReturn ==
    /\ comp = "transforms"
    /\ t_pc = "loop"
    /\ t_i = Len(t_steps)
    /\ t_pc' = "returned"
    /\ t_returned' = t_result
    /\ UNCHANGED <<comp, t_data, t_steps, t_i, t_result, t_error, t_trace, call, outcome>>

(***************************************************************************)
(* The inputs of the pipeline runs.  The datasets: the one of              *)
(* test_data_transforms_chained and a second one with equal and missing    *)
(* values.  The step lists: every list of up to MaxSteps steps of          *)
(* StepPool (the steps of the chained test, steps that fail, a step of an  *)
(* unknown type and a step without a type), and one step of each other     *)
(* kind alone or before one pool step.                                     *)
(***************************************************************************)
MaxSteps == 3

Row(category, value, status) == [category |-> category, value |-> value, status |-> status]

ChainedData ==
    DataFrame(<<"category", "value", "status">>,
              <<Row(StrCell("A"), IntCell(10), StrCell("active")),
                Row(StrCell("A"), IntCell(20), StrCell("active")),
                Row(StrCell("B"), IntCell(15), StrCell("inactive")),
                Row(StrCell("B"), IntCell(25), StrCell("active"))>>)

Datasets ==
    LET
        TiedData ==
            DataFrame(<<"category", "value", "status">>,
                      <<Row(StrCell("B"), IntCell(10), StrCell("active")),
                        Row(StrCell("A"), IntCell(10), StrCell("inactive")),
                        Row(NA, IntCell(5), StrCell("active")),
                        Row(StrCell("A"), NA, StrCell("active"))>>)
        \* The data of test_data_transforms_mutate.
        PriceData ==
            DataFrame(<<"price", "quantity">>,
                      <<[price |-> IntCell(10), quantity |-> IntCell(5)],
                        [price |-> IntCell(20), quantity |-> IntCell(3)]>>)
    IN
    {ChainedData, TiedData, PriceData}

ChainedTransforms ==
    LET
        FilterActive == [type |-> "filter", filter_expr |-> [col |-> "status", op |-> "==", val |-> StrCell("active")]]
        SumByCategory ==
            [type |-> "group_summarize", group_by |-> <<"category">>,
             aggregations |-> <<[col |-> "value", fn |-> "sum"]>>]
        SortValueDesc == [type |-> "sort", sort_by |-> <<"value">>, ascending |-> [all |-> FALSE]]
    IN
    <<FilterActive, SumByCategory, SortValueDesc>>

StepLists ==
    LET StepPool ==
            Range(ChainedTransforms) \cup
            {[type |-> "filter", filter_expr |-> [col |-> "age", op |-> ">", val |-> IntCell(18)]],
             [type |-> "sort"],
             [type |-> "bogus"],
             [filter_expr |-> [col |-> "status", op |-> "==", val |-> StrCell("active")]],
             [type |-> "mutate",
              mutations |-> <<[col |-> "total", expr |-> [op |-> "*", a |-> [col |-> "value"], b |-> [const |-> 2]]]>>]}
        \* Mutations {col: "a * b"}: the test's, one that reads the column the one
        \* before it assigned, one that overwrites a column, one that fails late.
        Times(col, a, b) == [col |-> col, expr |-> [op |-> "*", a |-> [col |-> a], b |-> [col |-> b]]]
        Mutate(mutations) == [type |-> "mutate", mutations |-> mutations]
        OtherSteps ==
            {[type |-> "select", columns |-> <<"category", "value">>],
             [type |-> "rename", rename_map |-> <<[old |-> "value", new |-> "amount"]>>],
             [type |-> "drop_na"],
             [type |-> "fill_na", fill_values |-> [scalar |-> IntCell(0)]],
             [type |-> "fill_na", fill_values |-> [each |-> <<[col |-> "value", val |-> IntCell(0)]>>]],
             [type |-> "fill_na", fill_values |-> [none |-> TRUE], method |-> "forward"],
             [type |-> "fill_na", fill_values |-> [none |-> TRUE], method |-> "backward"],
             [type |-> "fill_na", fill_values |-> [none |-> TRUE], method |-> "ffill"],
             [type |-> "fill_na", fill_values |-> [none |-> TRUE], method |-> "bfill"],
             [type |-> "sample", n |-> 2],
             [type |-> "unique", columns |-> <<"category">>],
             [type |-> "rolling", column |-> "value", window |-> 2, function |-> "sum"],
             [type |-> "pivot", index |-> "category", columns |-> "status", values |-> "value", aggfunc |-> "sum"],
             Mutate(<<Times("total", "price", "quantity")>>),
             Mutate(<<Times("total", "value", "value"), Times("square", "total", "total")>>),
             Mutate(<<Times("value", "value", "value"), Times("fourth", "value", "value")>>),
             Mutate(<<Times("total", "value", "value"), Times("area", "width", "height")>>)}
    IN  UNION {[1..n -> StepPool] : n \in 0..MaxSteps}
            \cup {<<s>> : s \in OtherSteps}
            \cup {<<s, u>> : s \in OtherSteps, u \in StepPool}

\* apply_transforms is entered: result = data.copy() (line 330).
InitT ==
    /\ comp = "transforms"
    /\ t_data \in Datasets
    /\ t_steps \in StepLists
    /\ t_i = 0
    /\ t_result = t_data
    /\ t_pc = "loop"
    /\ t_error = NoError
    /\ t_trace = <<>>
    /\ t_returned = NoData
    /\ call = [op |-> "none"]
    /\ outcome = [kind |-> "none"]

NextT == TransformStep \/ TransformReturn

SpecT == InitT /\ [][NextT]_vars

(***************************************************************************)
(* Properties of the transform pipeline.                                   *)
(***************************************************************************)
LastTrace == t_trace[Len(t_trace)]

\* C1: apply_transforms executes the steps strictly in list order, the first
\* on a copy of the caller's data and each later one on the dataset the step
\* before it produced; no step is skipped or retried; when a step fails the
\* call raises at that step, no later step is executed and no dataset is
\* returned; a dataset is returned only after every step succeeded, and it is
\* the result of the last step.
C1_StrictOrder ==
    /\ \A k \in 1..Len(t_trace) : t_trace[k].index = k
    /\ Len(t_trace) >= 1 => t_trace[1].input = t_data
    /\ \A k \in 1..(Len(t_trace) - 1) :
          Ok(t_trace[k + 1].input) \in StepResults(t_trace[k].input, t_steps[k])
    /\ t_pc = "loop" => t_returned = NoData
    /\ t_pc = "raised" =>
          /\ t_returned = NoData
          /\ Len(t_trace) >= 1
          /\ t_error.index = Len(t_trace)
          /\ Fail(t_error.cause) \in StepResults(LastTrace.input, t_steps[Len(t_trace)])
    /\ t_pc = "returned" =>
          /\ Len(t_trace) = Len(t_steps)
          /\ IF Len(t_steps) = 0 THEN t_returned = t_data
             ELSE Ok(t_returned) \in StepResults(LastTrace.input, t_steps[Len(t_steps)])

\* C1 witness: a run of three steps raised at its second step.
C1_Witness ==
    /\ t_pc = "raised"
    /\ Len(t_steps) = 3
    /\ Len(t_trace) = 2
    /\ t_error.index = 2

\* C2: when the step at position i (from 1) fails, the error names the index i
\* and the kind of that same step (None for a step without a type) and wraps
\* the cause the step failed with.
C2_ErrorNamesStep ==
    t_pc = "raised" =>
        /\ t_error.index = t_i + 1
        /\ t_error.index \in 1..Len(t_steps)
        /\ t_error.index = LastTrace.index
        /\ t_error.kind = TypeOf(t_steps[t_error.index])
        /\ Fail(t_error.cause) \in StepResults(LastTrace.input, t_steps[t_error.index])

\* C2 witness: the second step has no type and the error names index 2 and kind None.
C2_Witness ==
    /\ t_pc = "raised"
    /\ t_error.index = 2
    /\ ~Has(t_steps[2], "type")
    /\ t_error.kind = NoneStr
    /\ t_error.cause = "Unknown transform type: None"

ChainedReturned ==
    /\ t_data = ChainedData
    /\ t_steps = ChainedTransforms
    /\ t_pc = "returned"

\* C3 as stated: the chained test yields {B,25} and then {A,30}.
C3_Original ==
    ChainedReturned =>
        t_returned.rows = <<[category |-> StrCell("B"), value |-> IntCell(25)],
                            [category |-> StrCell("A"), value |-> IntCell(30)]>>

\* C3 as amended: filter status == 'active', group by category summing value
\* and sort by value descending yield exactly 2 rows, {A,30} and then {B,25}.
C3_ChainedResult ==
    ChainedReturned =>
        /\ Len(t_returned.rows) = 2
        /\ t_returned.cols = <<"category", "value">>
        /\ t_returned.rows = <<[category |-> StrCell("A"), value |-> IntCell(30)],
                               [category |-> StrCell("B"), value |-> IntCell(25)]>>

\* C3 witness: the chained run has returned.
C3_Witness == ChainedReturned /\ Len(t_trace) = 3

(***************************************************************************)
(* templates.py.  A dict is a function from its keys; the empty dict is    *)
(* EmptyDict.  A parameter value that the program only passes on (a        *)
(* number, a flag, a figure size) is kept as its JSON text.  TEMPLATES is  *)
(* the registry in the order of the source, each entry with its name.      *)
(***************************************************************************)
EmptyDict == [k \in {} |-> ""]

TEMPLATES ==
    <<
     [name |-> "time_series",
      description |-> "Line plot optimized for time-based data with date formatting",
      config |-> [geoms |-> <<[type |-> "line", params |-> [size |-> "1"]]>>,
                  scales |-> <<[aesthetic |-> "x", type |-> "datetime", params |-> EmptyDict]>>,
                  theme |-> [base |-> "minimal", customizations |-> [figure_size |-> "[12, 6]"]]],
      required_aesthetics |-> <<"x", "y">>,
      suggested_aesthetics |-> <<"color", "group">>],
     [name |-> "scatter_with_trend",
      description |-> "Scatter plot with linear regression trend line and confidence interval",
      config |-> [geoms |-> <<[type |-> "point", params |-> [size |-> "2", alpha |-> "0.6"]],
                             [type |-> "smooth", params |-> [method |-> "lm", se |-> "true"]]>>,
                  theme |-> [base |-> "minimal"]],
      required_aesthetics |-> <<"x", "y">>,
      suggested_aesthetics |-> <<"color">>],
     [name |-> "distribution_comparison",
      description |-> "Violin plot for comparing distributions across groups",
      config |-> [geoms |-> <<[type |-> "violin", params |-> [alpha |-> "0.7"]],
                             [type |-> "jitter", params |-> [width |-> "0.1", alpha |-> "0.3", size |-> "1"]]>>,
                  theme |-> [base |-> "bw"]],
      required_aesthetics |-> <<"x", "y">>,
      suggested_aesthetics |-> <<"fill", "color">>],
     [name |-> "category_breakdown",
      description |-> "Bar chart showing counts or values by category",
      config |-> [geoms |-> <<[type |-> "col", params |-> EmptyDict]>>,
                  theme |-> [base |-> "minimal", customizations |-> [legend_position |-> "bottom"]],
                  coords |-> [type |-> "flip", params |-> EmptyDict]],
      required_aesthetics |-> <<"x", "y">>,
      suggested_aesthetics |-> <<"fill">>],
     [name |-> "correlation_heatmap",
      description |-> "Heatmap for visualizing correlations or relationships",
      config |-> [geoms |-> <<[type |-> "tile", params |-> EmptyDict]>>,
                  scales |-> <<[aesthetic |-> "fill", type |-> "gradient", params |-> [low |-> "blue", high |-> "red"]]>>,
                  theme |-> [base |-> "minimal", customizations |-> [figure_size |-> "[10, 8]"]]],
      required_aesthetics |-> <<"x", "y", "fill">>,
      suggested_aesthetics |-> <<>>],
     [name |-> "boxplot_comparison",
      description |-> "Boxplot with individual points for detailed distribution comparison",
      config |-> [geoms |-> <<[type |-> "boxplot", params |-> [alpha |-> "0.7"]],
                             [type |-> "jitter", params |-> [width |-> "0.2", alpha |-> "0.4", size |-> "1"]]>>,
                  theme |-> [base |-> "bw"]],
      required_aesthetics |-> <<"x", "y">>,
      suggested_aesthetics |-> <<"fill", "color">>],
     [name |-> "multi_line",
      description |-> "Multiple line plots for comparing trends across categories",
      config |-> [geoms |-> <<[type |-> "line", params |-> [size |-> "1.2"]]>>,
                  theme |-> [base |-> "minimal", customizations |-> [figure_size |-> "[12, 6]", legend_position |-> "right"]]],
      required_aesthetics |-> <<"x", "y", "color">>,
      suggested_aesthetics |-> <<"linetype">>],
     [name |-> "histogram_with_density",
      description |-> "Histogram overlaid with kernel density curve",
      config |-> [geoms |-> <<[type |-> "histogram", params |-> [alpha |-> "0.7", bins |-> "30"]],
                             [type |-> "density", params |-> [alpha |-> "0"]]>>,
                  theme |-> [base |-> "minimal"]],
      required_aesthetics |-> <<"x">>,
      suggested_aesthetics |-> <<"fill", "color">>],
     [name |-> "before_after",
      description |-> "Side-by-side comparison of before and after measurements",
      config |-> [geoms |-> <<[type |-> "point", params |-> [size |-> "3"]],
                             [type |-> "line", params |-> [alpha |-> "0.5"]]>>,
                  theme |-> [base |-> "bw"],
                  facets |-> [type |-> "wrap", params |-> [ncol |-> "2"]]],
      required_aesthetics |-> <<"x", "y">>,
      suggested_aesthetics |-> <<"group", "color">>]
    >>

TemplateNames == {TEMPLATES[i].name : i \in 1..Len(TEMPLATES)}

\* TEMPLATES[template_name]
TemplateOf(template_name) ==
    TEMPLATES[CHOOSE i \in 1..Len(TEMPLATES) : TEMPLATES[i].name = template_name]

\* sorted() of a set of strings.
RECURSIVE SortStrings(_)
SortStrings(S) ==
    IF S = {} THEN <<>>
    ELSE LET m == CHOOSE x \in S : \A y \in S : ~StrLess(y, x)
         IN  <<m>> \o SortStrings(S \ {m})

\* What a call gives: the value returned, or the exception raised.
Returned(value) == [kind |-> "returned", value |-> value]
Raised(error) == [kind |-> "raised", error |-> error]

\* get_template (lines 133-152).
get_template(template_name) ==
    IF template_name \notin TemplateNames
    THEN Raised([exc |-> "KeyError", template_name |-> template_name,
                 available |-> SortStrings(TemplateNames)])
    ELSE Returned(TemplateOf(template_name))

\* list_templates (lines 155-162): the names with their descriptions, in registry order.
list_templates ==
    Returned([i \in 1..Len(TEMPLATES) |->
                [name |-> TEMPLATES[i].name, description |-> TEMPLATES[i].description]])

\* {**a, **b} and a.update(b): the keys of b replace those of a, whole values.
Overlay(a, b) ==
    [k \in DOMAIN a \cup DOMAIN b |-> IF k \in DOMAIN b THEN b[k] ELSE a[k]]

\* `if overrides:` - None and the empty dict are falsy.
HasOverrides(overrides) == overrides.given /\ DOMAIN overrides.dict # {}

\* A validation that only counts the aesthetics given.
apply_template_CountOnly(template_name, data_source, aes, overrides) ==
    LET got == get_template(template_name)
    IN  IF got.kind = "raised" THEN got
        ELSE LET template == got.value
                 required == template.required_aesthetics
                 missing  == Range(required) \ DOMAIN aes
             IN  IF Cardinality(DOMAIN aes) < Len(required)
                 THEN Raised([exc |-> "ValueError", template_name |-> template_name,
                              required |-> required, missing |-> missing])
                 ELSE LET config == Overlay([data_source |-> data_source, aes |-> aes],
                                            template.config)
                      IN  Returned(IF HasOverrides(overrides)
                                   THEN Overlay(config, overrides.dict) ELSE config)

\* A merge that appends an overriding list to the preset's list.
apply_template_DeepMerge(template_name, data_source, aes, overrides) ==
    LET got == get_template(template_name)
    IN  IF got.kind = "raised" THEN got
        ELSE LET template == got.value
                 required == template.required_aesthetics
                 missing  == Range(required) \ DOMAIN aes
             IN  IF missing # {}
                 THEN Raised([exc |-> "ValueError", template_name |-> template_name,
                              required |-> required, missing |-> missing])
                 ELSE LET config == Overlay([data_source |-> data_source, aes |-> aes],
                                            template.config)
                          merged == Overlay(config, overrides.dict)
                      IN  Returned(IF HasOverrides(overrides)
                                   THEN [k \in DOMAIN merged |->
                                           IF k = "geoms" /\ k \in DOMAIN config
                                                /\ k \in DOMAIN overrides.dict
                                           THEN config[k] \o overrides.dict[k]
                                           ELSE merged[k]]
                                   ELSE config)

\* apply_template (lines 165-211).
apply_template(template_name, data_source, aes, overrides) ==
    LET got == get_template(template_name)
    IN  IF got.kind = "raised" THEN got
        ELSE LET template == got.value
                 required == template.required_aesthetics
                 provided == DOMAIN aes
                 missing  == Range(required) \ provided
             IN  IF missing # {}
                 THEN Raised([exc |-> "ValueError", template_name |-> template_name,
                              required |-> required, missing |-> missing])
                 ELSE LET config == Overlay([data_source |-> data_source, aes |-> aes],
                                            template.config)
                      IN  Returned(IF HasOverrides(overrides)
                                   THEN Overlay(config, overrides.dict) ELSE config)

(***************************************************************************)
(* Calls of the template functions.  The arguments: every registered name  *)
(* and two unknown ones, every aesthetics mapping over AesRoles, two data  *)
(* sources, and overrides that are absent, empty, replace preset keys, add *)
(* a key, or name "aes" or "data_source".                                  *)
(***************************************************************************)
AesRoles == {"x", "y", "color", "fill"}

NoOverrides == [given |-> FALSE]
Overrides(dict) == [given |-> TRUE, dict |-> dict]

BarLayer == [type |-> "bar", params |-> EmptyDict]

TemplateCalls ==
    LET AesMappings == UNION {[S -> {"col"}] : S \in SUBSET AesRoles}
        DataSources ==
            {[type |-> "file", path |-> "data.csv"],
             [type |-> "inline", path |-> NoneStr]}
        OverridesPool ==
            {NoOverrides,
             Overrides(EmptyDict),
             Overrides([geoms |-> <<BarLayer>>]),
             Overrides([theme |-> [base |-> "dark"]]),
             Overrides([labels |-> [title |-> "Title"]]),
             Overrides([geoms |-> <<BarLayer>>, theme |-> [base |-> "dark"]]),
             Overrides([aes |-> [k \in {"x"} |-> "other"]]),
             Overrides([data_source |-> [type |-> "file", path |-> "other.csv"]])}
    IN  {[op |-> "apply_template", template_name |-> n, data_source |-> d, aes |-> a, overrides |-> o] :
            n \in TemplateNames \cup {"nonexistent", ""}, d \in DataSources,
            a \in AesMappings, o \in OverridesPool}
        \cup {[op |-> "get_template", template_name |-> n] : n \in TemplateNames \cup {"nonexistent", ""}}
        \cup {[op |-> "list_templates"]}

NoCall == [op |-> "none"]
NoOutcome == [kind |-> "none"]

\* The pipeline variables of a behaviour that runs no pipeline.
TIdle ==
    /\ t_data = DataFrame(<<>>, <<>>)
    /\ t_steps = <<>>
    /\ t_i = 0
    /\ t_result = DataFrame(<<>>, <<>>)
    /\ t_pc = "idle"
    /\ t_error = NoError
    /\ t_trace = <<>>
    /\ t_returned = NoData

InitTpl ==
    /\ comp = "templates"
    /\ call \in TemplateCalls
    /\ outcome = NoOutcome
    /\ TIdle

ApplyTemplate ==
    /\ comp = "templates"
    /\ call.op = "apply_template"
    /\ outcome = NoOutcome
    /\ outcome' = apply_template(call.template_name, call.data_source, call.aes, call.overrides)
    /\ UNCHANGED <<comp, call, tvars>>

GetTemplate ==
    /\ comp = "templates"
    /\ call.op = "get_template"
    /\ outcome = NoOutcome
    /\ outcome' = get_template(call.template_name)
    /\ UNCHANGED <<comp, call, tvars>>

ListTemplates ==
    /\ comp = "templates"
    /\ call.op = "list_templates"
    /\ outcome = NoOutcome
    /\ outcome' = list_templates
    /\ UNCHANGED <<comp, call, tvars>>

NextTpl == ApplyTemplate \/ GetTemplate \/ ListTemplates

SpecTpl == InitTpl /\ [][NextTpl]_vars

(***************************************************************************)
(* Properties of template expansion.                                       *)
(***************************************************************************)
ApplyDone == comp = "templates" /\ call.op = "apply_template" /\ outcome # NoOutcome

\* The required roles of the called template that the aesthetics omit.
OmittedRoles == Range(TemplateOf(call.template_name).required_aesthetics) \ DOMAIN call.aes

\* C4: for a registered template, apply_template fails if and only if the
\* aesthetics omit a required role, and the error lists the required roles and
\* exactly the omitted ones; for an unknown name it fails with an error that
\* lists all the registered template names.
C4_RequiredAesthetics ==
    ApplyDone =>
        IF call.template_name \in TemplateNames
        THEN /\ outcome.kind = "raised" <=> OmittedRoles # {}
             /\ outcome.kind = "raised" =>
                   /\ outcome.error.exc = "ValueError"
                   /\ outcome.error.required = TemplateOf(call.template_name).required_aesthetics
                   /\ outcome.error.missing = OmittedRoles
        ELSE /\ outcome.kind = "raised"
             /\ outcome.error.exc = "KeyError"
             /\ Range(outcome.error.available) = TemplateNames
             /\ Len(outcome.error.available) = Len(TEMPLATES)

\* C4 witness: scatter_with_trend without y reports y as missing.
C4_Witness ==
    /\ ApplyDone
    /\ call.template_name = "scatter_with_trend"
    /\ DOMAIN call.aes = {"x"}
    /\ outcome.kind = "raised"
    /\ outcome.error.missing = {"y"}
    /\ outcome.error.required = <<"x", "y">>

\* The keys of the overrides given (none when they are absent).
OverrideKeys == IF call.overrides.given THEN DOMAIN call.overrides.dict ELSE {}

\* C5: the returned specification holds, for every key of the overrides, the
\* override's value; for every other preset key, the template's value; and the
\* data source and aesthetics given unless one of the two replaces them.  It
\* has no other key.  With no overrides the layers are the preset's, in order.
C5_ShallowMerge ==
    ApplyDone /\ outcome.kind = "returned" =>
        LET config == outcome.value
            preset == TemplateOf(call.template_name).config
        IN  /\ DOMAIN config = {"data_source", "aes"} \cup DOMAIN preset \cup OverrideKeys
            /\ \A k \in OverrideKeys : config[k] = call.overrides.dict[k]
            /\ \A k \in DOMAIN preset \ OverrideKeys : config[k] = preset[k]
            /\ "data_source" \notin OverrideKeys \cup DOMAIN preset =>
                    config.data_source = call.data_source
            /\ "aes" \notin OverrideKeys \cup DOMAIN preset => config.aes = call.aes
            /\ OverrideKeys = {} /\ call.template_name = "scatter_with_trend" =>
                    [i \in 1..Len(config.geoms) |-> config.geoms[i].type] = <<"point", "smooth">>

\* C5 witness: an override of the layers replaced the two preset layers by its one.
C5_Witness ==
    /\ ApplyDone
    /\ outcome.kind = "returned"
    /\ call.template_name = "scatter_with_trend"
    /\ "geoms" \in OverrideKeys
    /\ outcome.value.geoms = <<BarLayer>>
    /\ outcome.value.theme = [base |-> "minimal"]

(***************************************************************************)
(* error_utils.py: the suggestion helpers.  difflib.get_close_matches      *)
(* scores each vocabulary entry x against the query with                   *)
(* SequenceMatcher(a=x, b=query).ratio() = 2*M/T, where T is the sum of    *)
(* the two lengths and M the total size of the matching blocks: the        *)
(* longest common block (the earliest in a, then the earliest in b), then  *)
(* recursively the longest blocks to its left and to its right.  It keeps  *)
(* the entries with ratio >= cutoff and returns the one that is largest    *)
(* by (ratio, entry).  Offsets are 0-based and ranges half-open, as in     *)
(* Python.                                                                 *)
(***************************************************************************)
\* SequenceMatcher.find_longest_match(alo, ahi, blo, bhi), no junk.
FindLongestMatch(a, b, alo, ahi, blo, bhi) ==
    LET
        \* s[lo:hi]
        Slice(s, lo, hi) == SubSeq(s, lo + 1, hi)
    IN
        LET blocks == {m \in (alo..(ahi - 1)) \X (blo..(bhi - 1)) \X (1..(ahi - alo)) :
                          /\ m[1] + m[3] <= ahi
                          /\ m[2] + m[3] <= bhi
                          /\ Slice(a, m[1], m[1] + m[3]) = Slice(b, m[2], m[2] + m[3])}
        IN  IF blocks = {} THEN <<alo, blo, 0>>
            ELSE CHOOSE m \in blocks :
                    \A o \in blocks :
                        \/ m[3] > o[3]
                        \/ m[3] = o[3] /\ m[1] < o[1]
                        \/ m[3] = o[3] /\ m[1] = o[1] /\ m[2] <= o[2]

\* The total size of the matching blocks of a[alo:ahi] and b[blo:bhi].
RECURSIVE MatchSize(_, _, _, _, _, _)
MatchSize(a, b, alo, ahi, blo, bhi) ==
    IF alo >= ahi \/ blo >= bhi THEN 0
    ELSE LET m == FindLongestMatch(a, b, alo, ahi, blo, bhi)
         IN  IF m[3] = 0 THEN 0
             ELSE m[3] + MatchSize(a, b, alo, m[1], blo, m[2])
                       + MatchSize(a, b, m[1] + m[3], ahi, m[2] + m[3], bhi)

\* ratio() as the fraction 2*M / T (1 when both strings are empty).
Ratio(a, b) ==
    IF Len(a) + Len(b) = 0 THEN [num |-> 1, den |-> 1]
    ELSE [num |-> 2 * MatchSize(a, b, 0, Len(a), 0, Len(b)), den |-> Len(a) + Len(b)]

\* A lookup that returns the first entry that is close enough, not the closest.
GetCloseMatch_FirstClose(word, possibilities, cutoff10) ==
    LET close == {k \in 1..Len(possibilities) :
                     10 * Ratio(possibilities[k], word).num >= cutoff10 * Ratio(possibilities[k], word).den}
    IN  IF close = {} THEN NoneStr
        ELSE possibilities[CHOOSE k \in close : \A j \in close : k <= j]

\* difflib.get_close_matches(word, possibilities, n=1, cutoff): the match or
\* NoneStr.  The cutoff is in tenths: ratio >= cutoff is 10 * num >= cutoff10 * den.
GetCloseMatch(word, possibilities, cutoff10) ==
    LET
        \* (ratio, entry) of x is larger than that of y.
        Better(query, x0, y0) ==
            LET rx == Ratio(x0, query)
                ry == Ratio(y0, query)
            IN  \/ rx.num * ry.den > ry.num * rx.den
                \/ rx.num * ry.den = ry.num * rx.den /\ StrLess(y0, x0)
    IN
        LET close == {x \in Range(possibilities) :
                         10 * Ratio(x, word).num >= cutoff10 * Ratio(x, word).den}
        IN  IF close = {} THEN NoneStr
            ELSE CHOOSE x \in close : \A y \in close \ {x} : Better(word, x, y)

ColumnThreshold == 6
GeomThreshold == 5
ThemeThreshold == 5

\* suggest_column_name (lines 9-25), with the default threshold 0.6.
suggest_column_name(column, available_columns) ==
    IF Len(available_columns) = 0 THEN NoneStr
    ELSE GetCloseMatch(column, available_columns, ColumnThreshold)

\* suggest_geom_type (lines 51-66).
suggest_geom_type(geom_type, available_geoms) ==
    IF Len(available_geoms) = 0 THEN NoneStr
    ELSE GetCloseMatch(geom_type, available_geoms, GeomThreshold)

\* suggest_theme_name (lines 92-107).
suggest_theme_name(theme, available_themes) ==
    IF Len(available_themes) = 0 THEN NoneStr
    ELSE GetCloseMatch(theme, available_themes, ThemeThreshold)

\* sep.join(seq)
RECURSIVE Join(_, _)
Join(seq, sep) ==
    IF Len(seq) = 0 THEN ""
    ELSE IF Len(seq) = 1 THEN seq[1]
    ELSE seq[1] \o sep \o Join(Tail(seq), sep)

\* format_column_error (lines 28-48).
format_column_error(column, available_columns) ==
    LET suggestion == suggest_column_name(column, available_columns)
    IN  "Column '" \o column \o "' not found in data."
        \o (IF Truthy(suggestion) THEN "\n\nDid you mean: '" \o suggestion \o "'?" ELSE "")
        \o "\n\nAvailable columns: " \o Join(available_columns, ", ")

\* format_geom_error (lines 69-89).
format_geom_error(geom_type, available_geoms) ==
    LET suggestion == suggest_geom_type(geom_type, available_geoms)
    IN  "Unknown geometry type: '" \o geom_type \o "'"
        \o (IF Truthy(suggestion) THEN "\n\nDid you mean: '" \o suggestion \o "'?" ELSE "")
        \o "\n\nAvailable geometry types: " \o Join(SortStrings(Range(available_geoms)), ", ")

\* format_theme_error (lines 110-130).
format_theme_error(theme, available_themes) ==
    LET suggestion == suggest_theme_name(theme, available_themes)
    IN  "Unknown theme: '" \o theme \o "'"
        \o (IF Truthy(suggestion) THEN "\n\nDid you mean: '" \o suggestion \o "'?" ELSE "")
        \o "\n\nAvailable themes: " \o Join(SortStrings(Range(available_themes)), ", ")

(***************************************************************************)
(* plot_builder.py: the resolvers and build_plot.  A plot is the sequence  *)
(* of the components added to ggplot(data, aes), in the order build_plot   *)
(* adds them; a plotnine constructor is taken to accept its parameters and *)
(* is recorded as the component it builds.  A configuration object that is *)
(* not given is None; an error is the exception class and its message.     *)
(***************************************************************************)
None == [none |-> TRUE]
IsNone(v) == v = None

\* str.lower()
RECURSIVE Lower(_)
Lower(s) ==
    IF Len(s) = 0 THEN ""
    ELSE LET UpperChars == "ABCDEFGHIJKLMNOPQRSTUVWXYZ"
             LowerChars == "abcdefghijklmnopqrstuvwxyz"
             c == SubSeq(s, 1, 1)
             up == {k \in 1..Len(UpperChars) : SubSeq(UpperChars, k, k) = c}
         IN  (IF up = {} THEN c
              ELSE LET k == CHOOSE k \in up : TRUE IN SubSeq(LowerChars, k, k))
             \o Lower(SubSeq(s, 2, Len(s)))

\* The keys of GEOM_MAP (lines 104-125), in insertion order.
GEOM_MAP ==
    <<"point", "line", "bar", "col", "histogram", "boxplot", "violin", "area",
      "density", "smooth", "jitter", "tile", "text", "errorbar", "hline", "vline",
      "abline", "path", "polygon", "ribbon">>

\* The keys of scale_map (lines 258-275).
scale_map ==
    <<"scale_x_continuous", "scale_y_continuous", "scale_x_discrete", "scale_y_discrete",
      "scale_x_log10", "scale_y_log10", "scale_x_sqrt", "scale_y_sqrt",
      "scale_x_datetime", "scale_y_datetime", "scale_color_gradient",
      "scale_color_discrete", "scale_fill_gradient", "scale_fill_discrete",
      "scale_color_brewer", "scale_fill_brewer">>

\* The keys of theme_map (lines 289-298); gray and grey are the same theme.
theme_map == <<"gray", "grey", "bw", "minimal", "classic", "dark", "light", "void">>
\* The keys of coord_map (lines 391-396) and of stat_map (lines 411-416).
coord_map == <<"cartesian", "flip", "fixed", "trans">>
stat_map == <<"smooth", "bin", "density", "summary">>

PlotBuildError(message) == [exc |-> "PlotBuildError", message |-> message]

\* _build_aesthetics (lines 210-233): the roles whose value is truthy.
build_aesthetics(aes_config) ==
    LET
        AestheticRoles == <<"x", "y", "color", "fill", "size", "alpha", "shape", "linetype", "group">>
    IN
        LET kept == {r \in Range(AestheticRoles) : Truthy(aes_config[r])}
        IN  Returned([r \in kept |-> aes_config[r]])

\* A geometry kind that _build_geom rejects as unknown: its error carries no
\* suggestion, and the vocabulary in the order of GEOM_MAP.
UnknownGeomError(geom_type) ==
    PlotBuildError("Unknown geom type: " \o geom_type \o ". Available: " \o Join(GEOM_MAP, ", "))

\* _build_geom (lines 236-246).
build_geom(geom_config) ==
    LET geom_type == Lower(geom_config.type)
    IN  IF geom_type \notin Range(GEOM_MAP)
        THEN Raised(UnknownGeomError(geom_type))
        ELSE Returned([kind |-> "geom", type |-> geom_type, params |-> geom_config.params])

\* _build_scale (lines 249-281).
build_scale(scale_config) ==
    LET aesthetic == Lower(scale_config.aesthetic)
        scale_type == Lower(scale_config.type)
        scale_name == "scale_" \o aesthetic \o "_" \o scale_type
    IN  IF scale_name \notin Range(scale_map)
        THEN Raised(PlotBuildError("Unknown scale: " \o scale_name))
        ELSE Returned([kind |-> "scale", type |-> scale_name, params |-> scale_config.params])

\* _build_theme_customizations (lines 315-344): the recognised keys.
build_theme_customizations(customizations) ==
    LET
        ThemeCustomizations ==
            {"figure_size", "legend_position", "legend_direction", "panel_background",
             "plot_background", "text", "axis_text", "axis_title"}
    IN
        [k \in DOMAIN customizations \cap ThemeCustomizations |-> customizations[k]]

\* _build_theme (lines 284-312).
build_theme(theme_config) ==
    LET
        ThemeFunction(name) == IF name = "grey" THEN "theme_gray" ELSE "theme_" \o name
    IN
        LET base_theme_name == Lower(theme_config.base)
        IN  IF base_theme_name \notin Range(theme_map)
            THEN Raised(PlotBuildError("Unknown theme: " \o base_theme_name
                                       \o ". Available: " \o Join(theme_map, ", ")))
            ELSE Returned([kind |-> "theme", type |-> ThemeFunction(base_theme_name),
                           params |-> IF DOMAIN theme_config.customizations # {}
                                      THEN build_theme_customizations(theme_config.customizations)
                                      ELSE EmptyDict])

\* A grid facet that always writes both sides of the expression.
build_facet_BothSides(facet_config) ==
    IF facet_config.type = "wrap"
    THEN IF ~Truthy(facet_config.facets)
         THEN Raised(PlotBuildError("facet_wrap requires 'facets' parameter"))
         ELSE Returned([kind |-> "facet", type |-> "facet_wrap",
                        formula |-> facet_config.facets, params |-> facet_config.params])
    ELSE IF Truthy(facet_config.rows) \/ Truthy(facet_config.cols)
         THEN Returned([kind |-> "facet", type |-> "facet_grid",
                        formula |-> facet_config.rows \o " ~ " \o facet_config.cols,
                        params |-> facet_config.params])
         ELSE Raised(PlotBuildError("facet_grid requires 'rows' or 'cols' parameter"))

\* _build_facet (lines 347-366).
build_facet(facet_config) ==
    IF facet_config.type = "wrap"
    THEN IF ~Truthy(facet_config.facets)
         THEN Raised(PlotBuildError("facet_wrap requires 'facets' parameter"))
         ELSE Returned([kind |-> "facet", type |-> "facet_wrap",
                        formula |-> facet_config.facets, params |-> facet_config.params])
    ELSE IF facet_config.type = "grid"
    THEN IF Truthy(facet_config.rows) /\ Truthy(facet_config.cols)
         THEN Returned([kind |-> "facet", type |-> "facet_grid",
                        formula |-> facet_config.rows \o " ~ " \o facet_config.cols,
                        params |-> facet_config.params])
         ELSE IF Truthy(facet_config.rows)
         THEN Returned([kind |-> "facet", type |-> "facet_grid",
                        formula |-> facet_config.rows \o " ~ .",
                        params |-> facet_config.params])
         ELSE IF Truthy(facet_config.cols)
         THEN Returned([kind |-> "facet", type |-> "facet_grid",
                        formula |-> ". ~ " \o facet_config.cols,
                        params |-> facet_config.params])
         ELSE Raised(PlotBuildError("facet_grid requires 'rows' or 'cols' parameter"))
    ELSE Raised(PlotBuildError("Unknown facet type: " \o facet_config.type))

\* _build_labels (lines 369-384): the labels whose value is truthy.
build_labels(labels_config) ==
    LET
        LabelNames == {"title", "x", "y", "caption", "subtitle"}
    IN
        LET kept == {l \in LabelNames : Truthy(labels_config[l])}
        IN  Returned([kind |-> "labs", type |-> "labs",
                      params |-> [l \in kept |-> labels_config[l]]])

\* _build_coord (lines 387-404).
build_coord(coord_config) ==
    LET coord_type == Lower(coord_config.type)
    IN  IF coord_type \notin Range(coord_map)
        THEN Raised(PlotBuildError("Unknown coord type: " \o coord_type
                                   \o ". Available: " \o Join(coord_map, ", ")))
        ELSE Returned([kind |-> "coord", type |-> "coord_" \o coord_type,
                       params |-> coord_config.params])

\* _build_stat (lines 407-424).
build_stat(stat_config) ==
    LET stat_type == Lower(stat_config.type)
    IN  IF stat_type \notin Range(stat_map)
        THEN Raised(PlotBuildError("Unknown stat type: " \o stat_type
                                   \o ". Available: " \o Join(stat_map, ", ")))
        ELSE Returned([kind |-> "stat", type |-> "stat_" \o stat_type,
                       params |-> stat_config.params])

\* An optional list that is given.
ListOf(items) == [items |-> items]
\* not v, for an optional list: None or empty.
Falsy(v) == IsNone(v) \/ Len(v.items) = 0
MissingGeometry == PlotBuildError("Either geom_config or geom_configs must be provided")

\* A resolution that prefers the single descriptor to the list.
ResolveLayers_SingleFirst(geom_config, geom_configs) ==
    IF ~IsNone(geom_config) THEN Returned(<<geom_config>>)
    ELSE IF Falsy(geom_configs) THEN Raised(MissingGeometry)
    ELSE Returned(geom_configs.items)

\* build_plot, lines 163-166: the descriptors of the layers to build.
ResolveLayers(geom_config, geom_configs) ==
    IF ~IsNone(geom_config) /\ Falsy(geom_configs) THEN Returned(<<geom_config>>)
    ELSE IF Falsy(geom_configs) THEN Raised(MissingGeometry)
    ELSE Returned(geom_configs.items)

\* An addition that puts each new component under the ones already there.
RECURSIVE AddAll_Underneath(_, _)
AddAll_Underneath(plot, results) ==
    IF Len(results) = 0 THEN Returned(plot)
    ELSE IF Head(results).kind = "raised" THEN Head(results)
    ELSE AddAll_Underneath([plot EXCEPT !.components = <<Head(results).value>> \o @], Tail(results))

\* plot + component, for each result in turn; the first exception ends it.
RECURSIVE AddAll(_, _)
AddAll(plot, results) ==
    IF Len(results) = 0 THEN Returned(plot)
    ELSE IF Head(results).kind = "raised" THEN Head(results)
    ELSE AddAll([plot EXCEPT !.components = Append(@, Head(results).value)], Tail(results))

\* build_plot (lines 128-207).
build_plot(data, aes_config, geom_config, geom_configs, scales, theme_config, facet_config, labels_config, coord_config, stats) ==
    LET
        ItemsOf(v) == IF IsNone(v) THEN <<>> ELSE v.items
    IN
        LET layers == ResolveLayers(geom_config, geom_configs)
            built ==
                IF layers.kind = "raised" THEN layers
                ELSE LET aes_obj == build_aesthetics(aes_config).value
                         plot == [data |-> data, mapping |-> aes_obj, components |-> <<>>]
                     IN  AddAll(plot,
                                [k \in 1..Len(layers.value) |-> build_geom(layers.value[k])]
                                \o [k \in 1..Len(ItemsOf(stats)) |-> build_stat(ItemsOf(stats)[k])]
                                \o [k \in 1..Len(ItemsOf(scales)) |-> build_scale(ItemsOf(scales)[k])]
                                \o (IF IsNone(facet_config) THEN <<>> ELSE <<build_facet(facet_config)>>)
                                \o (IF IsNone(labels_config) THEN <<>> ELSE <<build_labels(labels_config)>>)
                                \o (IF IsNone(coord_config) THEN <<>> ELSE <<build_coord(coord_config)>>)
                                \o (IF IsNone(theme_config) THEN <<>> ELSE <<build_theme(theme_config)>>))
        IN  IF built.kind = "raised"
            THEN Raised(PlotBuildError("Failed to build plot: " \o built.error.message))
            ELSE built

(***************************************************************************)
(* The builder calls checked: build_plot over geometry descriptors (known, *)
(* mixed-case, misspelt and unknown kinds; absent, empty and given lists), *)
(* facet configurations and the other configuration objects, and the       *)
(* geometry and facet resolvers called on their own.                       *)
(***************************************************************************)
MaxLayers == 2

GeomConfig(type, params) == [type |-> type, params |-> params]

SeqsUpTo(S, n) == UNION {[1..k -> S] : k \in 0..n}

FacetConfig(type, facets, rows, cols) ==
    [type |-> type, facets |-> facets, rows |-> rows, cols |-> cols,
     params |-> IF type = "wrap" THEN [ncol |-> "2"] ELSE EmptyDict]

Aesthetics(x, y, color, fill) ==
    [x |-> x, y |-> y, color |-> color, fill |-> fill, size |-> NoneStr,
     alpha |-> NoneStr, shape |-> NoneStr, linetype |-> NoneStr, group |-> NoneStr]

ScaleConfig(aesthetic, type) == [aesthetic |-> aesthetic, type |-> type, params |-> EmptyDict]
ThemeConfig(base, customizations) == [base |-> base, customizations |-> customizations]
LabelsConfig(title, x) ==
    [title |-> title, x |-> x, y |-> NoneStr, caption |-> NoneStr, subtitle |-> NoneStr]
CoordConfig(type) == [type |-> type, params |-> EmptyDict]
StatConfig(type) == [type |-> type, params |-> EmptyDict]

BuilderCalls ==
    LET GeomPool ==
            {GeomConfig("point", EmptyDict),
             GeomConfig("LINE", [size |-> "2"]),
             GeomConfig("smooth", [method |-> "\"lm\""]),
             GeomConfig("ponit", EmptyDict),
             GeomConfig("xyz", EmptyDict)}
        \* Some more kinds that are not in the vocabulary, for the geometry resolver.
        UnknownKinds == {"scatter", "Histgram", "lin", "hbar", "Bars", "boxplots", "", "q"}
        GeomLists == {None} \cup {ListOf(l) : l \in SeqsUpTo(GeomPool, MaxLayers)}
        FacetConfigs ==
            {FacetConfig(t, f, r, c) : t \in {"wrap", "grid"}, f \in {NoneStr, "", "~ g"},
                                       r \in {NoneStr, "", "a"}, c \in {NoneStr, "", "b"}}
        \* The configuration objects other than geometry and facet.
        Rest(aes_config, scales, theme_config, labels_config, coord_config, stats) ==
            [aes_config |-> aes_config, scales |-> scales, theme_config |-> theme_config,
             labels_config |-> labels_config, coord_config |-> coord_config, stats |-> stats]
        Bare == Rest(Aesthetics("a", "b", NoneStr, NoneStr), None, None, None, None, None)
        Full ==
            Rest(Aesthetics("a", "b", "g", ""),
                 ListOf(<<ScaleConfig("x", "continuous"), ScaleConfig("Fill", "gradient")>>),
                 ThemeConfig("Minimal", [figure_size |-> "[12, 6]", bogus |-> "1"]),
                 LabelsConfig("Sales", ""),
                 CoordConfig("Flip"),
                 ListOf(<<StatConfig("smooth")>>))
        RestPool ==
            {Bare, Full,
             [Bare EXCEPT !.scales = ListOf(<<ScaleConfig("x", "date")>>)],
             [Bare EXCEPT !.scales = ListOf(<<ScaleConfig("x", "log10"), ScaleConfig("X", "LOG10"),
                                              ScaleConfig("y", "sqrt")>>)],
             [Bare EXCEPT !.scales = ListOf(<<ScaleConfig("color", "brewer"),
                                              ScaleConfig("color", "viridis")>>)],
             [Bare EXCEPT !.theme_config = ThemeConfig("solarized", EmptyDict)],
             [Bare EXCEPT !.coord_config = CoordConfig("polar")],
             [Full EXCEPT !.stats = ListOf(<<StatConfig("ecdf")>>)]}
        BuildPlotCall(geom_config, geom_configs, facet_config, rest) ==
            [op |-> "build_plot", geom_config |-> geom_config, geom_configs |-> geom_configs,
             facet_config |-> facet_config, rest |-> rest]
    IN  {BuildPlotCall(g, gs, f, r) :
            g \in {None} \cup GeomPool, gs \in GeomLists,
            f \in {None, FacetConfig("wrap", "~ g", NoneStr, NoneStr),
                   FacetConfig("grid", NoneStr, NoneStr, NoneStr)},
            r \in RestPool}
        \cup {BuildPlotCall(g, gs, f, r) :
            g \in {None, GeomConfig("point", EmptyDict)},
            gs \in {None, ListOf(<<GeomConfig("point", EmptyDict), GeomConfig("smooth", EmptyDict)>>)},
            f \in FacetConfigs, r \in {Bare, Full}}
        \cup {[op |-> "_build_geom", geom_config |-> g] :
            g \in GeomPool \cup {GeomConfig(k, EmptyDict) : k \in UnknownKinds \cup Range(GEOM_MAP)}}
        \cup {[op |-> "_build_facet", facet_config |-> f] : f \in FacetConfigs}

InitB ==
    /\ comp = "builder"
    /\ call \in BuilderCalls
    /\ outcome = NoOutcome
    /\ TIdle

BuildPlot ==
    /\ comp = "builder"
    /\ call.op = "build_plot"
    /\ outcome = NoOutcome
    /\ outcome' = build_plot(ChainedData, call.rest.aes_config, call.geom_config,
                             call.geom_configs, call.rest.scales, call.rest.theme_config,
                             call.facet_config, call.rest.labels_config,
                             call.rest.coord_config, call.rest.stats)
    /\ UNCHANGED <<comp, call, tvars>>

BuildGeom ==
    /\ comp = "builder"
    /\ call.op = "_build_geom"
    /\ outcome = NoOutcome
    /\ outcome' = build_geom(call.geom_config)
    /\ UNCHANGED <<comp, call, tvars>>

BuildFacet ==
    /\ comp = "builder"
    /\ call.op = "_build_facet"
    /\ outcome = NoOutcome
    /\ outcome' = build_facet(call.facet_config)
    /\ UNCHANGED <<comp, call, tvars>>

NextB == BuildPlot \/ BuildGeom \/ BuildFacet

SpecB == InitB /\ [][NextB]_vars

(***************************************************************************)
(* Claims about the builder.                                               *)
(***************************************************************************)
BuildPlotDone == comp = "builder" /\ call.op = "build_plot" /\ outcome # NoOutcome
BuildGeomDone == comp = "builder" /\ call.op = "_build_geom" /\ outcome # NoOutcome
BuildFacetDone == comp = "builder" /\ call.op = "_build_facet" /\ outcome # NoOutcome

KnownKind(geom_config) == Lower(geom_config.type) \in Range(GEOM_MAP)
IsGeom(component) == component.kind = "geom"
GeomLayers(plot) == SelectSeq(plot.components, IsGeom)
LayerOf(geom_config) ==
    [kind |-> "geom", type |-> Lower(geom_config.type), params |-> geom_config.params]
FirstUnknown(descriptors) ==
    descriptors[CHOOSE k \in 1..Len(descriptors) :
                    /\ ~KnownKind(descriptors[k])
                    /\ \A j \in 1..(k - 1) : KnownKind(descriptors[j])]
Wrapped(error) == Raised(PlotBuildError("Failed to build plot: " \o error.message))

\* C6: build_plot takes a single geometry descriptor or a list.  When the list
\* is given (not None, not empty) the layers are built from the list alone, in
\* its order, whatever the single descriptor is; when only the single
\* descriptor is given the plot has exactly that one layer; when neither is
\* given (the list None or empty) the call fails with the missing-geometry
\* error.  A geometry failure is that of the first descriptor used whose kind
\* is unknown.
C6_LayerResolution ==
    BuildPlotDone =>
        LET single == call.geom_config
            list == call.geom_configs
            used == IF ~Falsy(list) THEN list.items ELSE <<single>>
        IN  IF IsNone(single) /\ Falsy(list)
            THEN outcome = Wrapped(MissingGeometry)
            ELSE /\ outcome # Wrapped(MissingGeometry)
                 /\ IF \A k \in 1..Len(used) : KnownKind(used[k])
                    THEN /\ outcome.kind = "returned" =>
                               GeomLayers(outcome.value) = [k \in 1..Len(used) |-> LayerOf(used[k])]
                         /\ outcome.kind = "raised" =>
                               ~Contains(outcome.error.message, "Unknown geom type")
                    ELSE outcome = Wrapped(UnknownGeomError(Lower(FirstUnknown(used).type)))

\* Both are given, the single descriptor is of an unknown kind, and the plot
\* is built with the two layers of the list.
C6_Witness ==
    /\ BuildPlotDone
    /\ call.geom_config = GeomConfig("ponit", EmptyDict)
    /\ call.geom_configs = ListOf(<<GeomConfig("point", EmptyDict), GeomConfig("LINE", [size |-> "2"])>>)
    /\ outcome.kind = "returned"
    /\ Len(GeomLayers(outcome.value)) = 2

\* C7: the error of a geometry kind that is not in the vocabulary carries the
\* nearest vocabulary match of the suggestion engine at threshold 0.5, when
\* there is one ("point" for "ponit"), and the full vocabulary in sorted
\* order, as format_geom_error writes them.
C7_NearestMatch ==
    (BuildGeomDone /\ outcome.kind = "raised") =>
        LET geom_type == Lower(call.geom_config.type)
            suggestion == suggest_geom_type(geom_type, GEOM_MAP)
        IN  /\ Truthy(suggestion) =>
                  Contains(outcome.error.message, "Did you mean: '" \o suggestion \o "'")
            /\ Contains(outcome.error.message, Join(SortStrings(Range(GEOM_MAP)), ", "))

FacetExpression(rows, cols) ==
    (IF Truthy(rows) THEN rows ELSE ".") \o " ~ " \o (IF Truthy(cols) THEN cols ELSE ".")
IsFacet(component) == component.kind = "facet"

\* C9: a grid facet resolves to "{row} ~ {col}" when both are given, to
\* "{row} ~ ." when only the row is, to ". ~ {col}" when only the column is,
\* and fails when neither is; a wrap facet fails when no faceting expression
\* is given and otherwise resolves to that expression.  Given means neither
\* None nor empty.  A plot that build_plot returns for a facet configuration
\* has that one facet.
C9_FacetExpression ==
    /\ BuildFacetDone =>
          LET f == call.facet_config
          IN  IF f.type = "grid"
              THEN IF Truthy(f.rows) \/ Truthy(f.cols)
                   THEN /\ outcome.kind = "returned"
                        /\ outcome.value.type = "facet_grid"
                        /\ outcome.value.formula = FacetExpression(f.rows, f.cols)
                   ELSE outcome = Raised(PlotBuildError("facet_grid requires 'rows' or 'cols' parameter"))
              ELSE IF Truthy(f.facets)
                   THEN /\ outcome.kind = "returned"
                        /\ outcome.value.type = "facet_wrap"
                        /\ outcome.value.formula = f.facets
                   ELSE outcome = Raised(PlotBuildError("facet_wrap requires 'facets' parameter"))
    /\ (BuildPlotDone /\ outcome.kind = "returned" /\ ~IsNone(call.facet_config)) =>
          LET f == call.facet_config
              facets == SelectSeq(outcome.value.components, IsFacet)
          IN  /\ Len(facets) = 1
              /\ facets[1].formula = IF f.type = "grid" THEN FacetExpression(f.rows, f.cols)
                                     ELSE f.facets

\* A grid facet with only the row given resolves to "a ~ .".
C9_Witness ==
    /\ BuildFacetDone
    /\ call.facet_config = FacetConfig("grid", "", "a", NoneStr)
    /\ outcome.kind = "returned"
    /\ outcome.value.formula = "a ~ ."

(***************************************************************************)
(* palettes.py: the palette registry and its lookups.  PALETTES lists the  *)
(* entries of the six category dictionaries (COLORBLIND_SAFE, SCIENTIFIC,  *)
(* CATEGORICAL, CORPORATE, SEQUENTIAL, DIVERGING) in the order in which    *)
(* ALL_PALETTES combines them; a dict is the sequence of its items in      *)
(* insertion order.                                                        *)
(***************************************************************************)
PALETTES ==
    <<
     [category |-> "colorblind_safe", key |-> "okabe_ito",
      colors |-> <<"#E69F00", "#56B4E9", "#009E73", "#F0E442", "#0072B2", "#D55E00", "#CC79A7">>],
     [category |-> "colorblind_safe", key |-> "tol_bright",
      colors |-> <<"#4477AA", "#EE6677", "#228833", "#CCBB44", "#66CCEE", "#AA3377", "#BBBBBB">>],
     [category |-> "colorblind_safe", key |-> "tol_muted",
      colors |-> <<"#332288", "#88CCEE", "#44AA99", "#117733", "#999933", "#DDCC77", "#CC6677", "#882255", "#AA4499">>],
     [category |-> "scientific", key |-> "viridis",
      colors |-> <<"#440154", "#482777", "#3E4989", "#31688E", "#26828E", "#1F9E89", "#35B779", "#6DCD59", "#B4DE2C", "#FDE724">>],
     [category |-> "scientific", key |-> "plasma",
      colors |-> <<"#0D0887", "#4C02A1", "#7E03A8", "#A92395", "#CC4678", "#E56B5D", "#F89441", "#FEC328", "#F0F921">>],
     [category |-> "scientific", key |-> "inferno",
      colors |-> <<"#000004", "#1B0C41", "#4A0C6B", "#781C6D", "#A52C60", "#CF4446", "#ED6925", "#FB9A06", "#F7D13D", "#FCFFA4">>],
     [category |-> "scientific", key |-> "magma",
      colors |-> <<"#000004", "#180F3E", "#451077", "#721F81", "#9F2F7F", "#CD4071", "#F1605D", "#FD9668", "#FEC287", "#FCFDBF">>],
     [category |-> "categorical", key |-> "set1",
      colors |-> <<"#E41A1C", "#377EB8", "#4DAF4A", "#984EA3", "#FF7F00", "#FFFF33", "#A65628", "#F781BF", "#999999">>],
     [category |-> "categorical", key |-> "set2",
      colors |-> <<"#66C2A5", "#FC8D62", "#8DA0CB", "#E78AC3", "#A6D854", "#FFD92F", "#E5C494", "#B3B3B3">>],
     [category |-> "categorical", key |-> "set3",
      colors |-> <<"#8DD3C7", "#FFFFB3", "#BEBADA", "#FB8072", "#80B1D3", "#FDB462", "#B3DE69", "#FCCDE5", "#D9D9D9", "#BC80BD", "#CCEBC5", "#FFED6F">>],
     [category |-> "categorical", key |-> "tableau10",
      colors |-> <<"#4E79A7", "#F28E2B", "#E15759", "#76B7B2", "#59A14F", "#EDC948", "#B07AA1", "#FF9DA7", "#9C755F", "#BAB0AC">>],
     [category |-> "corporate", key |-> "corporate_blue",
      colors |-> <<"#003f5c", "#2f4b7c", "#665191", "#a05195", "#d45087", "#f95d6a", "#ff7c43", "#ffa600">>],
     [category |-> "corporate", key |-> "professional",
      colors |-> <<"#1f77b4", "#ff7f0e", "#2ca02c", "#d62728", "#9467bd", "#8c564b", "#e377c2", "#7f7f7f">>],
     [category |-> "corporate", key |-> "modern",
      colors |-> <<"#264653", "#2A9D8F", "#E9C46A", "#F4A261", "#E76F51">>],
     [category |-> "sequential", key |-> "blues",
      colors |-> <<"#F7FBFF", "#DEEBF7", "#C6DBEF", "#9ECAE1", "#6BAED6", "#4292C6", "#2171B5", "#08519C", "#08306B">>],
     [category |-> "sequential", key |-> "greens",
      colors |-> <<"#F7FCF5", "#E5F5E0", "#C7E9C0", "#A1D99B", "#74C476", "#41AB5D", "#238B45", "#006D2C", "#00441B">>],
     [category |-> "sequential", key |-> "reds",
      colors |-> <<"#FFF5F0", "#FEE0D2", "#FCBBA1", "#FC9272", "#FB6A4A", "#EF3B2C", "#CB181D", "#A50F15", "#67000D">>],
     [category |-> "sequential", key |-> "oranges",
      colors |-> <<"#FFF5EB", "#FEE6CE", "#FDD0A2", "#FDAE6B", "#FD8D3C", "#F16913", "#D94801", "#A63603", "#7F2704">>],
     [category |-> "diverging", key |-> "red_blue",
      colors |-> <<"#B2182B", "#D6604D", "#F4A582", "#FDDBC7", "#F7F7F7", "#D1E5F0", "#92C5DE", "#4393C3", "#2166AC">>],
     [category |-> "diverging", key |-> "red_green",
      colors |-> <<"#D73027", "#F46D43", "#FDAE61", "#FEE08B", "#FFFFBF", "#D9EF8B", "#A6D96A", "#66BD63", "#1A9850">>],
     [category |-> "diverging", key |-> "purple_orange",
      colors |-> <<"#7F3B08", "#B35806", "#E08214", "#FDB863", "#FEE0B6", "#F7F7F7", "#D8DAEB", "#B2ABD2", "#8073AC", "#542788">>]
    >>

\* ALL_PALETTES (lines 187-194): each entry under the key category_key.
ALL_PALETTES ==
    [k \in 1..Len(PALETTES) |->
        [name |-> PALETTES[k].category \o "_" \o PALETTES[k].key, colors |-> PALETTES[k].colors]]

\* The keys of palette_categories() (lines 241-255).
palette_categories ==
    <<"colorblind_safe", "scientific", "categorical", "corporate", "sequential", "diverging">>

PaletteNotFound(palette_name) ==
    [exc |-> "KeyError",
     message |-> "Palette '" \o palette_name
                 \o "' not found. Use list_palettes() to see available palettes."]

\* A lookup whose fallback returns the last entry that matches.
get_palette_LastMatch(palette_name) ==
    LET exact == {k \in 1..Len(ALL_PALETTES) : ALL_PALETTES[k].name = palette_name}
        suffix == {k \in 1..Len(ALL_PALETTES) : EndsWith(ALL_PALETTES[k].name, "_" \o palette_name)}
    IN  IF exact # {} THEN Returned(ALL_PALETTES[CHOOSE k \in exact : TRUE].colors)
        ELSE IF suffix # {}
        THEN Returned(ALL_PALETTES[CHOOSE k \in suffix : \A j \in suffix : j <= k].colors)
        ELSE Raised(PaletteNotFound(palette_name))

\* get_palette (lines 197-222).
get_palette(palette_name) ==
    LET exact == {k \in 1..Len(ALL_PALETTES) : ALL_PALETTES[k].name = palette_name}
        suffix == {k \in 1..Len(ALL_PALETTES) : EndsWith(ALL_PALETTES[k].name, "_" \o palette_name)}
    IN  IF exact # {} THEN Returned(ALL_PALETTES[CHOOSE k \in exact : TRUE].colors)
        ELSE IF suffix # {}
        THEN Returned(ALL_PALETTES[CHOOSE k \in suffix : \A j \in suffix : k <= j].colors)
        ELSE Raised(PaletteNotFound(palette_name))

\* list_palettes (lines 225-238): the whole registry, or the entries of a category.
list_palettes(category) ==
    LET
        IsOfCategory(entry0, category0) ==
            LET
                StartsWith(s, prefix) == Len(prefix) <= Len(s) /\ SubSeq(s, 1, Len(prefix)) = prefix
            IN
            StartsWith(entry0.name, category0 \o "_")
    IN
        IF Truthy(category)
        THEN Returned(SelectSeq(ALL_PALETTES, LAMBDA entry : IsOfCategory(entry, category)))
        ELSE Returned(ALL_PALETTES)

\* create_scale_config (lines 285-313).
create_scale_config(palette_name, aesthetic, type) ==
    LET got == get_palette(palette_name)
    IN  IF got.kind = "raised" THEN got
        ELSE IF type = "discrete"
        THEN Returned([aesthetic |-> aesthetic, type |-> "discrete",
                       params |-> [values |-> got.value]])
        ELSE IF type = "gradient"
        THEN Returned([aesthetic |-> aesthetic, type |-> "gradient",
                       params |-> [low |-> got.value[1], high |-> got.value[Len(got.value)]]])
        ELSE Raised([exc |-> "ValueError", message |-> "Unknown scale type: " \o type])

(***************************************************************************)
(* The palette calls checked: get_palette with every fully-qualified name, *)
(* every short name, names that several entries end with and names that    *)
(* none does; list_palettes with and without a category; and               *)
(* create_scale_config.                                                    *)
(***************************************************************************)
PaletteCalls ==
    LET Names ==
            {ALL_PALETTES[k].name : k \in 1..Len(ALL_PALETTES)}
            \cup {PALETTES[k].key : k \in 1..Len(PALETTES)}
            \cup {"blue", "green", "orange", "red", "purple", "bright", "ito", "10", "",
                  "_", "Viridis", "viridi", "scientific", "scientific_", "default", "safe_okabe_ito"}
    IN  {[op |-> "get_palette", palette_name |-> n] : n \in Names}
        \cup {[op |-> "list_palettes", category |-> c] :
                c \in Range(palette_categories) \cup {NoneStr, "", "science"}}
        \cup {[op |-> "create_scale_config", palette_name |-> n, aesthetic |-> a, type |-> t] :
                n \in {"viridis", "corporate_modern", "blue", "nonexistent"},
                a \in {"color", "fill"}, t \in {"discrete", "gradient", "continuous"}}

InitP ==
    /\ comp = "palettes"
    /\ call \in PaletteCalls
    /\ outcome = NoOutcome
    /\ TIdle

GetPalette ==
    /\ comp = "palettes"
    /\ call.op = "get_palette"
    /\ outcome = NoOutcome
    /\ outcome' = get_palette(call.palette_name)
    /\ UNCHANGED <<comp, call, tvars>>

ListPalettes ==
    /\ comp = "palettes"
    /\ call.op = "list_palettes"
    /\ outcome = NoOutcome
    /\ outcome' = list_palettes(call.category)
    /\ UNCHANGED <<comp, call, tvars>>

CreateScaleConfig ==
    /\ comp = "palettes"
    /\ call.op = "create_scale_config"
    /\ outcome = NoOutcome
    /\ outcome' = create_scale_config(call.palette_name, call.aesthetic, call.type)
    /\ UNCHANGED <<comp, call, tvars>>

NextP == GetPalette \/ ListPalettes \/ CreateScaleConfig

SpecP == InitP /\ [][NextP]_vars

GetPaletteDone == comp = "palettes" /\ call.op = "get_palette" /\ outcome # NoOutcome

\* The entries of the registry whose name ends with "_" + name, in registry order.
EndingWith(name) == SelectSeq(ALL_PALETTES, LAMBDA entry : EndsWith(entry.name, "_" \o name))

\* C8: get_palette returns the colors registered under the requested name when
\* it is a fully-qualified name of the registry; otherwise the colors of the
\* first entry, in registry order, whose name ends with "_" + name; otherwise
\* it fails with an error that names the requested palette.  For every palette
\* of the registry the short name (its key within its category) gives the
\* same color sequence as its fully-qualified name category_key.
C8_PaletteLookup ==
    GetPaletteDone =>
        LET name == call.palette_name
            exact == {k \in 1..Len(ALL_PALETTES) : ALL_PALETTES[k].name = name}
        IN  /\ IF exact # {}
               THEN \A k \in exact : outcome = Returned(ALL_PALETTES[k].colors)
               ELSE IF Len(EndingWith(name)) > 0
               THEN outcome = Returned(EndingWith(name)[1].colors)
               ELSE /\ outcome.kind = "raised"
                    /\ Contains(outcome.error.message, "'" \o name \o "'")
            /\ \A k \in 1..Len(PALETTES) :
                  name = PALETTES[k].key =>
                      /\ outcome = Returned(PALETTES[k].colors)
                      /\ outcome = get_palette(PALETTES[k].category \o "_" \o PALETTES[k].key)

\* The short name viridis gives the ten colors of scientific_viridis.
C8_Witness ==
    /\ GetPaletteDone
    /\ call.palette_name = "viridis"
    /\ outcome.kind = "returned"
    /\ outcome = get_palette("scientific_viridis")
    /\ Len(outcome.value) = 10
    /\ SubSeq(outcome.value[1], 1, 1) = "#"

(***************************************************************************)
(* templates.py: suggest_template.                                         *)
(***************************************************************************)
MaxSuggestions == 5

\* suggest_template, lines 229-254: the names the rules append, in order.
Candidates(num_numeric, num_categorical, has_time) ==
    (IF has_time /\ num_numeric >= 1
     THEN <<"time_series">> \o (IF num_categorical >= 1 THEN <<"multi_line">> ELSE <<>>)
     ELSE <<>>)
    \o (IF num_categorical >= 1 /\ num_numeric >= 1
        THEN <<"distribution_comparison", "boxplot_comparison">>
        ELSE <<>>)
    \o (IF num_numeric >= 2
        THEN <<"scatter_with_trend">> \o (IF num_numeric >= 3 THEN <<"correlation_heatmap">> ELSE <<>>)
        ELSE <<>>)
    \o (IF num_numeric >= 1 /\ num_categorical = 0 THEN <<"histogram_with_density">> ELSE <<>>)
    \o (IF num_categorical >= 1 THEN <<"category_breakdown">> ELSE <<>>)

\* A refinement that matches the goal as written, without lowercasing it.
GoalFilter_CaseSensitive(suggestions, goal) ==
    IF ~Truthy(goal) THEN suggestions
    ELSE LET Keep(a, b) == SelectSeq(suggestions, LAMBDA s : Contains(s, a) \/ Contains(s, b))
         IN  IF Contains(goal, "trend") \/ Contains(goal, "time")
             THEN Keep("time", "line")
             ELSE IF Contains(goal, "compare") \/ Contains(goal, "comparison")
             THEN Keep("comparison", "boxplot")
             ELSE IF Contains(goal, "distribution")
             THEN Keep("distribution", "histogram")
             ELSE IF Contains(goal, "correlation") \/ Contains(goal, "relationship")
             THEN Keep("correlation", "scatter")
             ELSE suggestions

\* suggest_template, lines 256-270: the refinement by the goal.
GoalFilter(suggestions, goal) ==
    IF ~Truthy(goal) THEN suggestions
    ELSE LET goal_lower == Lower(goal)
             Keep(a, b) == SelectSeq(suggestions, LAMBDA s : Contains(s, a) \/ Contains(s, b))
         IN  IF Contains(goal_lower, "trend") \/ Contains(goal_lower, "time")
             THEN Keep("time", "line")
             ELSE IF Contains(goal_lower, "compare") \/ Contains(goal_lower, "comparison")
             THEN Keep("comparison", "boxplot")
             ELSE IF Contains(goal_lower, "distribution")
             THEN Keep("distribution", "histogram")
             ELSE IF Contains(goal_lower, "correlation") \/ Contains(goal_lower, "relationship")
             THEN Keep("correlation", "scatter")
             ELSE suggestions

\* suggest_template, lines 272-278: the first occurrence of each name, in order.
RECURSIVE Unique(_, _)
Unique(items, seen) ==
    IF Len(items) = 0 THEN <<>>
    ELSE IF Head(items) \in seen THEN Unique(Tail(items), seen)
    ELSE <<Head(items)>> \o Unique(Tail(items), seen \cup {Head(items)})

\* A suggestion list that is not cut.
suggest_template_NoLimit(num_numeric, num_categorical, has_time, goal) ==
    Returned(Unique(GoalFilter(Candidates(num_numeric, num_categorical, has_time), goal), {}))

\* suggest_template (lines 214-280).
suggest_template(num_numeric, num_categorical, has_time, goal) ==
    LET unique_suggestions ==
            Unique(GoalFilter(Candidates(num_numeric, num_categorical, has_time), goal), {})
    IN  Returned(SubSeq(unique_suggestions, 1, Min(MaxSuggestions, Len(unique_suggestions))))

(***************************************************************************)
(* The suggestion calls checked: up to MaxNumeric numeric and              *)
(* MaxCategorical categorical columns, with and without a time column,     *)
(* without a goal and with goals of each keyword group and of none.        *)
(***************************************************************************)
MaxNumeric == 4
MaxCategorical == 2

SuggestCalls ==
    {[op |-> "suggest_template", num_numeric |-> n, num_categorical |-> c,
      has_time |-> t, goal |-> g] :
        n \in 0..MaxNumeric, c \in 0..MaxCategorical, t \in BOOLEAN,
        g \in {NoneStr, "", "Show the trend", "over TIME", "compare groups",
               "a comparison of distribution", "distribution", "Correlation",
               "relationship", "pie chart"}}

InitS ==
    /\ comp = "suggest"
    /\ call \in SuggestCalls
    /\ outcome = NoOutcome
    /\ TIdle

SuggestTemplate ==
    /\ comp = "suggest"
    /\ call.op = "suggest_template"
    /\ outcome = NoOutcome
    /\ outcome' = suggest_template(call.num_numeric, call.num_categorical,
                                   call.has_time, call.goal)
    /\ UNCHANGED <<comp, call, tvars>>

NextS == SuggestTemplate

SpecS == InitS /\ [][NextS]_vars

SuggestDone == comp = "suggest" /\ call.op = "suggest_template" /\ outcome # NoOutcome

\* The fixed order of the rules' template names.
RuleOrder ==
    <<"time_series", "multi_line", "distribution_comparison", "boxplot_comparison",
      "scatter_with_trend", "correlation_heatmap", "histogram_with_density",
      "category_breakdown">>

\* The rule of a template name applies to a data shape.
Applies(name, n, c, t) ==
    CASE name = "time_series" -> t /\ n >= 1
      [] name = "multi_line" -> t /\ n >= 1 /\ c >= 1
      [] name \in {"distribution_comparison", "boxplot_comparison"} -> c >= 1 /\ n >= 1
      [] name = "scatter_with_trend" -> n >= 2
      [] name = "correlation_heatmap" -> n >= 3
      [] name = "histogram_with_density" -> n >= 1 /\ c = 0
      [] name = "category_breakdown" -> c >= 1

\* The names of the rules that apply to the data shape of the call, in rule order.
Applicable ==
    SelectSeq(RuleOrder,
              LAMBDA name : Applies(name, call.num_numeric, call.num_categorical, call.has_time))

NoRepeats(s) == \A i, j \in 1..Len(s) : i # j => s[i] # s[j]

\* C10 as stated: without a goal the result holds the names of every
\* applicable rule, in the fixed rule order, and has at most 5 names, none
\* repeated.
C10_Original ==
    (SuggestDone /\ ~Truthy(call.goal)) =>
        /\ outcome.kind = "returned"
        /\ outcome.value = Applicable
        /\ Len(outcome.value) <= 5
        /\ NoRepeats(outcome.value)

\* C10, amended: without a goal the result is the first 5 names (all of them
\* when there are at most 5) of the names of the applicable rules in the
\* fixed rule order; it has at most 5 names, none repeated.  The names of
\* applicable rules after the fifth are left out.
C10_FirstFive ==
    (SuggestDone /\ ~Truthy(call.goal)) =>
        /\ outcome.kind = "returned"
        /\ Len(outcome.value) <= 5
        /\ NoRepeats(outcome.value)
        /\ Len(outcome.value) = IF Len(Applicable) <= 5 THEN Len(Applicable) ELSE 5
        /\ \A k \in 1..Len(outcome.value) : outcome.value[k] = Applicable[k]

\* Seven rules' names apply (a time column, three numeric and one categorical
\* column): the result has the first five and leaves out correlation_heatmap
\* and category_breakdown.
C10_Witness ==
    /\ SuggestDone
    /\ call.goal = NoneStr
    /\ call.has_time /\ call.num_numeric = 3 /\ call.num_categorical = 1
    /\ outcome.value = <<"time_series", "multi_line", "distribution_comparison",
                         "boxplot_comparison", "scatter_with_trend">>
    /\ Len(Applicable) = 7

\* The keyword groups of the goal, in the order in which they are tried, each
\* with the substrings a kept name contains.
KeywordGroups ==
    <<[keywords |-> {"trend", "time"}, substrings |-> {"time", "line"}],
      [keywords |-> {"compare", "comparison"}, substrings |-> {"comparison", "boxplot"}],
      [keywords |-> {"distribution"}, substrings |-> {"distribution", "histogram"}],
      [keywords |-> {"correlation", "relationship"}, substrings |-> {"correlation", "scatter"}]>>

\* The groups that the lowercased goal of the call matches.
MatchedGroups ==
    {g \in 1..Len(KeywordGroups) :
        \E w \in KeywordGroups[g].keywords : Contains(Lower(call.goal), w)}

FirstOf(s, n) == SubSeq(s, 1, IF Len(s) <= n THEN Len(s) ELSE n)

\* C11: with a goal, the lowercased goal is matched against the keyword groups
\* trend/time, compare/comparison, distribution, correlation/relationship; the
\* result is the names of the applicable rules, in rule order, that contain a
\* substring of the first group matched (time or line; comparison or boxplot;
\* distribution or histogram; correlation or scatter); when no group matches
\* the result is that of the same data shape with no goal.
C11_GoalFilter ==
    (SuggestDone /\ Truthy(call.goal)) =>
        /\ outcome.kind = "returned"
        /\ IF MatchedGroups = {}
           THEN /\ outcome.value = FirstOf(Applicable, 5)
                /\ outcome = suggest_template(call.num_numeric, call.num_categorical,
                                              call.has_time, NoneStr)
           ELSE LET g == CHOOSE g \in MatchedGroups : \A h \in MatchedGroups : g <= h
                IN  outcome.value =
                        SelectSeq(Applicable,
                                  LAMBDA name : \E sub \in KeywordGroups[g].substrings :
                                                   Contains(name, sub))

\* A goal written with a capital letter selects the correlation group; both of
\* its names are kept, in rule order, out of seven applicable names.
C11_Witness ==
    /\ SuggestDone
    /\ call.goal = "Correlation"
    /\ call.has_time /\ call.num_numeric = 3 /\ call.num_categorical = 1
    /\ outcome.value = <<"scatter_with_trend", "correlation_heatmap">>

(***************************************************************************)
(* server.py: the tool handlers.  A handler answers with one text.  What   *)
(* lies outside the program is the world of a call: the files that exist   *)
(* and what they hold, whether the output directory can be written, what   *)
(* a URL answers, and the identifiers uuid4 may draw.                      *)
(***************************************************************************)

\* text.split(sep): the pieces between the occurrences of sep, left to right.
RECURSIVE Split(_, _)
Split(text, sep) ==
    LET at == {i \in 1..(Len(text) - Len(sep) + 1) : SubSeq(text, i, i + Len(sep) - 1) = sep}
    IN  IF at = {} THEN <<text>>
        ELSE LET i == CHOOSE i \in at : \A j \in at : i <= j
             IN  <<SubSeq(text, 1, i - 1)>> \o Split(SubSeq(text, i + Len(sep), Len(text)), sep)

\* Path(p).expanduser().resolve(): a relative path is taken from the working
\* directory of the server.
Resolve(path) ==
    LET WorkDir == "/srv"
    IN  IF Len(path) > 0 /\ SubSeq(path, 1, 1) = "/" THEN path
        ELSE IF Len(path) > 1 /\ SubSeq(path, 1, 2) = "./" THEN WorkDir \o "/" \o SubSeq(path, 3, Len(path))
        ELSE WorkDir \o "/" \o path

\* load_data (data_loader.py): every failure is wrapped as "Failed to load
\* data: ...".  The data of an inline source is the frame pandas makes of it.
load_data(data_source, world) ==
    LET DataLoadError(message) ==
            Raised([exc |-> "DataLoadError", message |-> "Failed to load data: " \o message])
    IN  CASE data_source.type = "inline" ->
                IF IsNone(data_source.data) \/ Len(data_source.data.rows) = 0
                THEN DataLoadError("Inline data source requires 'data' field")
                ELSE Returned(data_source.data)
          [] data_source.type = "file" ->
                IF ~Truthy(data_source.path)
                THEN DataLoadError("File data source requires 'path' field")
                ELSE LET path == Resolve(data_source.path)
                     IN  IF path \notin DOMAIN world.files
                         THEN DataLoadError("File not found: " \o path)
                         ELSE IF IsNone(world.files[path])
                         THEN DataLoadError("No columns to parse from file")
                         ELSE Returned(world.files[path])
          [] data_source.type = "url" ->
                IF ~Truthy(data_source.path)
                THEN DataLoadError("URL data source requires 'path' field")
                ELSE IF IsNone(world.url)
                THEN DataLoadError("Failed to fetch data from URL: " \o world.url_error)
                ELSE Returned(world.url)

\* apply_transforms as one call: the outcomes of running the steps in order,
\* a dataset returned or the ValueError of the first step that fails, whose
\* text is "Transform {i+1} ({transform_type}) failed: {str(e)}" (line 407).
apply_transforms(data, transforms) ==
    LET ErrorText(error) ==
            "Transform " \o ToString(error.index) \o " (" \o PyStr(error.kind) \o ") failed: " \o error.cause
        RECURSIVE ApplyFrom(_, _)
        ApplyFrom(result, i) ==
            IF i >= Len(transforms) THEN {Returned(result)}
            ELSE UNION {IF r.ok THEN ApplyFrom(r.data, i + 1)
                        ELSE {Raised([exc |-> "ValueError",
                                      message |-> ErrorText(TransformError(i, transforms[i + 1], r.cause))])}
                        : r \in StepResults(result, transforms[i + 1])}
    IN  ApplyFrom(data, 0)

\* save_plot (plot_builder.py lines 427-475).  Drawing evaluates the mapping
\* of every aesthetic against the data, so a mapping that names no column of
\* the data fails there; any failure is wrapped as "Failed to save plot: ...".
\* A successful call has written the file at the path it returns.
save_plot(plot, output_config, world, uuid) ==
    LET output_dir == Resolve(output_config.directory)
        filename == IF Truthy(output_config.filename) THEN output_config.filename
                    ELSE "plot_" \o uuid \o "." \o output_config.format
        output_path == output_dir \o "/" \o filename
        unmapped == {r \in DOMAIN plot.mapping : plot.mapping[r] \notin Range(plot.data.cols)}
    IN  IF unmapped # {}
        THEN LET r == CHOOSE r \in unmapped : \A q \in unmapped : ~StrLess(q, r)
             IN  Raised(PlotBuildError("Failed to save plot: Could not evaluate the '" \o r
                                       \o "' mapping: '" \o plot.mapping[r] \o "'"))
        ELSE IF ~world.writable
        THEN Raised(PlotBuildError("Failed to save plot: [Errno 13] Permission denied: '"
                                   \o output_path \o "'"))
        ELSE Returned([path |-> output_path, format |-> output_config.format,
                       width |-> output_config.width, height |-> output_config.height,
                       dpi |-> output_config.dpi])

\* d.get(key, default) on a dict of arguments.
Get(d, key, default) == IF key \in DOMAIN d THEN d[key] ELSE default

\* Model(**d) for the models of schemas.py: a required field that is missing
\* or a value outside a Literal is a ValidationError (modelled by the first
\* line of its text); the other fields take their defaults.
ParseModel(model, d) ==
    LET need(keys) == keys \ DOMAIN d # {}
        ValidationError ==
            Raised([exc |-> "ValidationError", message |-> "1 validation error for " \o model])
    IN  CASE model = "DataSource" ->
                IF need({"type"}) \/ Get(d, "type", "") \notin {"file", "url", "inline"}
                THEN ValidationError
                ELSE Returned([type |-> d.type, path |-> Get(d, "path", NoneStr),
                               data |-> Get(d, "data", None), format |-> Get(d, "format", "csv")])
          [] model = "Aesthetics" ->
                Returned([r \in {"x", "y", "color", "fill", "size", "alpha", "shape", "linetype", "group"}
                          |-> Get(d, r, NoneStr)])
          [] model = "GeomConfig" ->
                IF need({"type"}) THEN ValidationError
                ELSE Returned([type |-> d.type, params |-> Get(d, "params", EmptyDict)])
          [] model = "ScaleConfig" ->
                IF need({"aesthetic", "type"}) THEN ValidationError
                ELSE Returned([aesthetic |-> d.aesthetic, type |-> d.type,
                               params |-> Get(d, "params", EmptyDict)])
          [] model = "ThemeConfig" ->
                Returned([base |-> Get(d, "base", "gray"),
                          customizations |-> Get(d, "customizations", EmptyDict)])
          [] model = "FacetConfig" ->
                IF Get(d, "type", "wrap") \notin {"wrap", "grid"} THEN ValidationError
                ELSE Returned([type |-> Get(d, "type", "wrap"), facets |-> Get(d, "facets", NoneStr),
                               cols |-> Get(d, "cols", NoneStr), rows |-> Get(d, "rows", NoneStr),
                               params |-> Get(d, "params", EmptyDict)])
          [] model = "LabelsConfig" ->
                Returned([r \in {"title", "x", "y", "caption", "subtitle"} |-> Get(d, r, NoneStr)])
          [] model = "CoordConfig" ->
                Returned([type |-> Get(d, "type", "cartesian"), params |-> Get(d, "params", EmptyDict)])
          [] model = "StatConfig" ->
                IF need({"type"}) THEN ValidationError
                ELSE Returned([type |-> d.type, params |-> Get(d, "params", EmptyDict)])
          [] model = "OutputConfig" ->
                IF Get(d, "format", "png") \notin {"png", "pdf", "svg"} THEN ValidationError
                ELSE Returned([format |-> Get(d, "format", "png"),
                               filename |-> Get(d, "filename", NoneStr),
                               width |-> Get(d, "width", "8"), height |-> Get(d, "height", "6"),
                               dpi |-> Get(d, "dpi", "300"),
                               directory |-> Get(d, "directory", "./output")])

\* What a call of a handler leaves behind: the text it answers with and the
\* file it has written, if any.
Answer(text) == [text |-> text, saved |-> NoneStr]

\* create_plot_handler (server.py lines 557-684): the answers the call can
\* end with, one for each way the transformations can go and each
\* identifier uuid4 can draw.
create_plot_handler(arguments, world) ==
    LET \* `key in arguments and arguments[key]`: an empty dict or list is falsy.
        Given(key) == key \in DOMAIN arguments /\ DOMAIN arguments[key] # {}
        \* arguments[key] parsed with a model; a missing key is a KeyError.
        ParseRequired(key, model) ==
            IF key \notin DOMAIN arguments
            THEN Raised([exc |-> "KeyError", message |-> "'" \o key \o "'"])
            ELSE ParseModel(model, arguments[key])
        ParseOne(key, model) ==
            IF Given(key) THEN <<ParseModel(model, arguments[key])>> ELSE <<>>
        ParseEach(key, model) ==
            IF Given(key)
            THEN [k \in 1..Len(arguments[key]) |-> ParseModel(model, arguments[key][k])]
            ELSE <<>>
        \* The first exception among outcomes in the order they are computed.
        FirstRaised(outcomes) ==
            LET at == {k \in 1..Len(outcomes) : outcomes[k].kind = "raised"}
            IN  IF at = {} THEN None ELSE outcomes[CHOOSE k \in at : \A j \in at : k <= j]
        \* The values handed to build_plot for the optional configurations.
        ListOrNone(outcomes) ==
            IF Len(outcomes) = 0 THEN None ELSE ListOf([k \in 1..Len(outcomes) |-> outcomes[k].value])
        OneOrNone(outcomes) == IF Len(outcomes) = 0 THEN None ELSE outcomes[1].value
        UnexpectedError(error) ==
            Answer("Unexpected error: " \o error.message
                   \o "\n\nPlease check your input parameters and try again.")
        NoGeometry ==
            Answer("Error: Either 'geom' or 'geoms' must be provided.\n\nUse 'geom' for single layer or 'geoms' for multi-layer plots.")
        DataLoading(error) ==
            Answer("Data loading error: " \o error.message
                   \o "\n\nPlease check:\n- File path or URL is correct\n- File format is supported\n- Data is properly formatted")
        Transformation(error) ==
            Answer("Data transformation error: " \o error.message
                   \o "\n\nPlease check your transformation configurations.")
        PlotBuilding(error) ==
            Answer("Plot building error: " \o error.message
                   \o "\n\nPlease check:\n- Column names exist in data\n- Aesthetic mappings are valid\n- Geom type is supported\n- Scale/theme configurations are correct")
        PlotSaving(error) ==
            Answer("Plot saving error: " \o error.message
                   \o "\n\nPlease check:\n- Output directory is writable\n- Filename is valid\n- Output format is supported")
        Success(result, data) ==
            [text |-> "Plot created successfully!\n\nOutput file: " \o result.path
                      \o "\nFormat: " \o result.format
                      \o "\nDimensions: " \o result.width \o " x " \o result.height \o " inches"
                      \o "\nDPI: " \o result.dpi
                      \o "\n\nData summary:\n- Rows: " \o ToString(Len(data.rows))
                      \o "\n- Columns: " \o Join(data.cols, ", ") \o "\n",
             saved |-> result.path]
        single == ParseOne("geom", "GeomConfig")
        several == ParseEach("geoms", "GeomConfig")
        first == <<ParseRequired("data_source", "DataSource"),
                   ParseRequired("aes", "Aesthetics")>> \o single \o several
        scales == ParseEach("scales", "ScaleConfig")
        theme == ParseOne("theme", "ThemeConfig")
        facets == ParseOne("facets", "FacetConfig")
        labels == ParseOne("labels", "LabelsConfig")
        coords == ParseOne("coords", "CoordConfig")
        stats == ParseEach("stats", "StatConfig")
        output == ParseModel("OutputConfig", Get(arguments, "output", EmptyDict))
        rest == scales \o theme \o facets \o labels \o coords \o stats \o <<output>>
    IN  IF ~IsNone(FirstRaised(first)) THEN {UnexpectedError(FirstRaised(first).error)}
        ELSE IF Len(single) = 0 /\ Len(several) = 0 THEN {NoGeometry}
        ELSE IF ~IsNone(FirstRaised(rest)) THEN {UnexpectedError(FirstRaised(rest).error)}
        ELSE LET loaded == load_data(first[1].value, world)
             IN  IF loaded.kind = "raised" THEN {DataLoading(loaded.error)}
                 ELSE LET transformed ==
                              IF Given("transforms")
                              THEN apply_transforms(loaded.value, arguments.transforms)
                              ELSE {loaded}
                          After(data) ==
                              LET plot == build_plot(data, first[2].value, OneOrNone(single),
                                                     ListOrNone(several), ListOrNone(scales),
                                                     OneOrNone(theme), OneOrNone(facets),
                                                     OneOrNone(labels), OneOrNone(coords),
                                                     ListOrNone(stats))
                              IN  IF plot.kind = "raised" THEN {PlotBuilding(plot.error)}
                                  ELSE {LET result == save_plot(plot.value, output.value, world, uuid)
                                        IN  IF result.kind = "raised" THEN PlotSaving(result.error)
                                            ELSE Success(result.value, data)
                                        : uuid \in world.uuids}
                      IN  UNION {IF t.kind = "raised" THEN {Transformation(t.error)}
                                 ELSE After(t.value) : t \in transformed}

\* list_themes_handler (server.py lines 790-830).  Its first statement
\* imports THEME_MAP from plot_builder, whose module-level names are
\* PlotBuildError, GEOM_MAP, build_plot, save_plot and the _build_*
\* functions (the table of themes is a local of _build_theme): an import of
\* a name the module does not define raises ImportError before any text is
\* made.
list_themes_handler ==
    LET plot_builder ==
            {"PlotBuildError", "GEOM_MAP", "build_plot", "_build_aesthetics", "_build_geom",
             "_build_scale", "_build_theme", "_build_theme_customizations", "_build_facet",
             "_build_labels", "_build_coord", "_build_stat", "save_plot"}
        theme_descriptions ==
            [gray |-> "Gray background with white gridlines (ggplot2 default)",
             bw |-> "Black and white theme with no background",
             minimal |-> "Minimalist theme with minimal gridlines",
             classic |-> "Classic look with axis lines and no gridlines",
             dark |-> "Dark background theme",
             light |-> "Light theme with subtle gray background",
             void |-> "Empty theme with no elements (for custom designs)"]
        rule == "=================================================="
        names == SortStrings(Range(theme_map))
        lines == [k \in 1..Len(names) |->
                      "  - " \o names[k] \o ": " \o Get(theme_descriptions, names[k], "") \o "\n"]
    IN  IF "THEME_MAP" \notin plot_builder
        THEN Raised([exc |-> "ImportError",
                     message |-> "cannot import name 'THEME_MAP' from 'plotnine_mcp.plot_builder'"])
        ELSE Returned(Answer("Available Themes\n" \o rule \o "\n\nBase themes:\n" \o Join(lines, "")
                             \o "\n" \o rule \o "\nCustomization options:\n"
                             \o "  - figure_size: [width, height] in inches\n"
                             \o "  - legend_position: 'right', 'left', 'top', 'bottom', 'none'\n"
                             \o "  - legend_direction: 'vertical', 'horizontal'\n"
                             \o "  - panel_background: background color/style\n"
                             \o "  - plot_background: overall plot background\n"
                             \o "  - text: global text properties\n"
                             \o "  - axis_text: axis label styling\n"
                             \o "  - axis_title: axis title styling\n"
                             \o "\nExample usage:\n  \"theme\": {\n    \"base\": \"minimal\",\n"
                             \o "    \"customizations\": {\n      \"figure_size\": [12, 6],\n"
                             \o "      \"legend_position\": \"bottom\"\n    }\n  }\n"))

\* create_plot_from_template_handler (server.py lines 952-994): the answers
\* the call can end with, each with the arguments object as the call leaves
\* it.  `overrides` is the caller's own object when the arguments hold one
\* (arguments.get returns it), so the assignments of lines 962 and 964 are
\* made in it; the default {} is a fresh object.  list(missing) lists a set,
\* in any order.
create_plot_from_template_handler(arguments, world) ==
    LET Failed(message) ==
            Answer("Error creating plot from template: " \o message
                   \o "\n\nPlease check your template name and aesthetics.")
        read == <<"template_name", "data_source", "aes">>
        absent == Range(read) \ DOMAIN arguments
        passed == Get(arguments, "overrides", EmptyDict)
        extra == [k \in DOMAIN arguments \cap {"labels", "output"} |-> arguments[k]]
        overrides == Overlay(passed, extra)
        left == IF "overrides" \in DOMAIN arguments
                THEN [arguments EXCEPT !.overrides = overrides] ELSE arguments
        PyList(names) == "[" \o Join([k \in 1..Len(names) |-> "'" \o names[k] \o "'"], ", ") \o "]"
        Orders(S) == {p \in [1..Cardinality(S) -> S] : \A i, j \in DOMAIN p : p[i] = p[j] => i = j}
        TemplateError(error) ==
            IF error.exc = "KeyError"
            THEN {"\"Template '" \o error.template_name \o "' not found. Available templates: "
                  \o Join(error.available, ", ") \o "\""}
            ELSE {"Template '" \o error.template_name \o "' requires aesthetics: "
                  \o PyList(error.required) \o ". Missing: " \o PyList(p) : p \in Orders(error.missing)}
    IN  IF absent # {}
        THEN {[answer |-> Failed("'" \o read[CHOOSE k \in 1..3 : /\ read[k] \in absent
                                                                   /\ \A j \in 1..(k - 1) : read[j] \notin absent]
                                 \o "'"),
               arguments |-> arguments]}
        ELSE LET config == apply_template(arguments.template_name, arguments.data_source,
                                          arguments.aes, Overrides(overrides))
             IN  IF config.kind = "raised"
                 THEN {[answer |-> Answer("Template error: " \o message
                                          \o "\n\nUse 'list_plot_templates' to see available templates."),
                        arguments |-> left] : message \in TemplateError(config.error)}
                 ELSE {[answer |-> [result EXCEPT !.text = "Plot created using template: "
                                                          \o arguments.template_name \o "\n\n" \o @],
                        arguments |-> left] : result \in create_plot_handler(config.value, world)}

\* import_plot_config_handler (server.py lines 877-929): the answers the
\* call can end with.  world.configs holds the configuration files: for a
\* path that exists, the object json.load gives, or the message of its
\* JSONDecodeError.  `if overrides:` skips an empty object.
import_plot_config_handler(arguments, world) ==
    LET Failed(message) ==
            Answer("Error importing config: " \o message
                   \o "\n\nPlease check:\n- Config file is valid\n- All required fields are present")
    IN  IF "config_path" \notin DOMAIN arguments THEN {Failed("'config_path'")}
        ELSE LET config_path == arguments.config_path
                 overrides == Get(arguments, "overrides", EmptyDict)
             IN  IF config_path \notin DOMAIN world.configs
                 THEN {Answer("Configuration file not found: " \o config_path
                              \o "\n\nPlease check the path and try again.")}
                 ELSE IF ~world.configs[config_path].json
                 THEN {Answer("Invalid JSON in config file: " \o world.configs[config_path].error
                              \o "\n\nPlease check that the file contains valid JSON.")}
                 ELSE LET config == Overlay(world.configs[config_path].config, overrides)
                      IN  {[result EXCEPT !.text = "Plot created from imported configuration!\n\nConfig file: "
                                                   \o config_path \o "\nOverrides applied: "
                                                   \o ToString(Cardinality(DOMAIN overrides))
                                                   \o " parameter(s)\n\n" \o @]
                           : result \in create_plot_handler(config, world)}

\* The marks and the rule of the batch report.  The marks are written in
\* ASCII: the check mark U+2713, the ballot cross U+2717 and the bullet
\* U+2022; the rule is "=" * 60.
Marks ==
    [tick |-> "[v]", cross |-> "[x]", bullet |-> "*",
     rule |-> "============================================================"]

(***************************************************************************)
(* Calls of the handlers.  The plot configurations are the one of the      *)
(* README (inline data, a point layer) and variations of it that end at    *)
(* each stage of create_plot_handler: no geometry, a geometry that is not  *)
(* in the vocabulary, a file that does not exist, a mapping that names no  *)
(* column, a missing aes, and two whose error text echoes words of the     *)
(* configuration.                                                          *)
(***************************************************************************)
MaxPlots == 2

ServerCalls ==
    LET inline == [type |-> "inline", data |-> ChainedData]
        xy == [x |-> "category", y |-> "value"]
        point == [type |-> "point"]
        PlotConfigs ==
            {[data_source |-> inline, aes |-> xy, geom |-> point],
             [data_source |-> inline, aes |-> xy, geoms |-> <<point, [type |-> "smooth"]>>,
              transforms |-> ChainedTransforms, output |-> [filename |-> "sales.png"]],
             [data_source |-> [type |-> "file", path |-> "data.csv"], aes |-> xy, geom |-> point,
              theme |-> [base |-> "minimal"], labels |-> [title |-> "Sales"]],
             [data_source |-> inline, aes |-> xy],
             [data_source |-> inline, aes |-> xy, geom |-> [type |-> "ponit"]],
             [data_source |-> [type |-> "file", path |-> "missing.csv"], aes |-> xy, geom |-> point],
             [data_source |-> inline, aes |-> [x |-> "nonexistent", y |-> "value"], geom |-> point],
             [data_source |-> inline, geom |-> point],
             [data_source |-> inline, aes |-> xy, geom |-> point,
              transforms |-> <<[type |-> "sort"]>>],
             [data_source |-> [type |-> "file", path |-> "successfully.csv"], aes |-> xy, geom |-> point],
             [data_source |-> inline, aes |-> xy, geom |-> point,
              transforms |-> <<[type |-> "successfully\nOutput file:\n"]>>]}
        \* Configurations for create_plot alone: arguments that do not
        \* validate, with and without a geometry, a scale that does not
        \* resolve, and a file name that reads like the success message.
        InvalidConfigs ==
            {[aes |-> xy, geom |-> point],
             [data_source |-> [type |-> "ftp"], aes |-> xy, geom |-> point],
             [data_source |-> inline, aes |-> xy, geom |-> point, output |-> [format |-> "bmp"]],
             [data_source |-> inline, aes |-> xy, output |-> [format |-> "bmp"]],
             [data_source |-> inline, aes |-> xy, geom |-> point,
              scales |-> <<[aesthetic |-> "x", type |-> "date"]>>],
             [data_source |-> [type |-> "file", path |-> "Plot created successfully.csv"],
              aes |-> xy, geom |-> point]}
        Restrict(d, keys) == [k \in DOMAIN d \cap keys |-> d[k]]
        \* The configuration files of the working directory.
        StoredConfigs ==
            [p \in {"plot.json", "missing_data.json", "broken.json"} |->
                CASE p = "plot.json" ->
                        [json |-> TRUE, config |-> [data_source |-> inline, aes |-> xy, geom |-> point]]
                  [] p = "missing_data.json" ->
                        [json |-> TRUE,
                         config |-> [data_source |-> [type |-> "file", path |-> "missing.csv"],
                                     aes |-> xy, geom |-> point]]
                  [] p = "broken.json" ->
                        [json |-> FALSE, error |-> "Expecting value: line 1 column 1 (char 0)"]]
        Worlds ==
            {[files |-> [p \in {"/srv/data.csv"} |-> ChainedData], writable |-> w,
              url |-> None, url_error |-> "Connection refused", uuids |-> {"1a2b3c4d", "9f8e7d6c"},
              configs |-> StoredConfigs]
             : w \in BOOLEAN}
        \* Arguments of import_plot_config: a stored configuration that makes
        \* a plot, one whose data file is missing, a file that is not JSON, a
        \* path that does not exist, and no path; with and without overrides.
        ImportArguments ==
            {Restrict([config_path |-> p, overrides |-> o], given)
             : p \in {"plot.json", "missing_data.json", "broken.json", "nowhere.json"},
               o \in {EmptyDict, [geom |-> [type |-> "ponit"]], [labels |-> [title |-> "Other"]]},
               given \in {{"config_path"}, {"config_path", "overrides"}, {"overrides"}}}
        \* Arguments of create_plot_from_template: a preset or an unknown name,
        \* both required aesthetics or one, with and without an overrides
        \* object, labels and output.
        TemplateArguments ==
            {Restrict([template_name |-> n, data_source |-> inline, aes |-> a,
                       overrides |-> o, labels |-> [title |-> "Sales"],
                       output |-> [filename |-> "sales.png"]],
                      {"data_source", "aes"} \cup given)
             : n \in {"scatter_with_trend", "category_breakdown", "nonexistent"},
               a \in {xy, [x |-> "category"], EmptyDict},
               o \in {EmptyDict, [theme |-> [base |-> "dark"]], [labels |-> [title |-> "Other"]]},
               given \in SUBSET {"template_name", "overrides", "labels", "output"}}
        \* Each preset called with exactly its required aesthetics, mapped to
        \* columns of the data, and nothing else.
        PresetArguments ==
            {[template_name |-> TEMPLATES[i].name, data_source |-> inline,
              aes |-> [r \in Range(TEMPLATES[i].required_aesthetics) |->
                           IF r = "y" THEN "value" ELSE IF r = "x" THEN "category" ELSE "status"]]
             : i \in 1..Len(TEMPLATES)}
    IN  {[op |-> "create_plot", arguments |-> a, world |-> w]
            : a \in PlotConfigs \cup InvalidConfigs, w \in Worlds}
        \cup {[op |-> "batch_create_plots", arguments |-> [plots |-> plots], world |-> w]
              : plots \in SeqsUpTo(PlotConfigs, MaxPlots), w \in Worlds}
        \cup {[op |-> "batch_create_plots", arguments |-> EmptyDict, world |-> w] : w \in Worlds}
        \cup {[op |-> "list_themes", arguments |-> EmptyDict, world |-> w] : w \in Worlds}
        \cup {[op |-> "create_plot_from_template", arguments |-> a, world |-> w]
              : a \in TemplateArguments \cup PresetArguments, w \in Worlds}
        \cup {[op |-> "import_plot_config", arguments |-> a, world |-> w]
              : a \in ImportArguments, w \in Worlds}

\* A call keeps, next to the arguments object, its value when it was passed.
InitH ==
    /\ comp = "server"
    /\ \E c \in ServerCalls : call = [op |-> c.op, arguments |-> c.arguments, world |-> c.world, passed |-> c.arguments]
    /\ outcome = NoOutcome
    /\ TIdle

\* A handler without its last except clause: what is not one of the
\* expected errors leaves the handler as an exception.
CreatePlot_Propagates ==
    /\ comp = "server"
    /\ call.op = "create_plot"
    /\ outcome = NoOutcome
    /\ \E answer \in create_plot_handler(call.arguments, call.world) :
          outcome' = IF Len(answer.text) >= 18 /\ SubSeq(answer.text, 1, 18) = "Unexpected error: "
                     THEN Raised([exc |-> "Exception", message |-> answer.text])
                     ELSE Returned(answer)
    /\ UNCHANGED <<comp, call, tvars>>

\* create_plot_handler, from the call to its answer.
CreatePlot ==
    /\ comp = "server"
    /\ call.op = "create_plot"
    /\ outcome = NoOutcome
    /\ \E answer \in create_plot_handler(call.arguments, call.world) :
          outcome' = Returned(answer)
    /\ UNCHANGED <<comp, call, tvars>>

\* list_themes_handler, from the call to its answer or its exception.
ListThemes ==
    /\ comp = "server"
    /\ call.op = "list_themes"
    /\ outcome = NoOutcome
    /\ outcome' = list_themes_handler
    /\ UNCHANGED <<comp, call, tvars>>

\* create_plot_from_template_handler, from the call to its answer; the
\* arguments object of the caller is left as the handler leaves it.
CreateFromTemplate ==
    /\ comp = "server"
    /\ call.op = "create_plot_from_template"
    /\ outcome = NoOutcome
    /\ \E r \in create_plot_from_template_handler(call.arguments, call.world) :
          /\ outcome' = Returned(r.answer)
          /\ call' = [call EXCEPT !.arguments = r.arguments]
    /\ UNCHANGED <<comp, tvars>>

\* import_plot_config_handler, from the call to its answer.
ImportPlotConfig ==
    /\ comp = "server"
    /\ call.op = "import_plot_config"
    /\ outcome = NoOutcome
    /\ \E answer \in import_plot_config_handler(call.arguments, call.world) :
          outcome' = Returned(answer)
    /\ UNCHANGED <<comp, call, tvars>>

\* arguments.get("plots", [])
PlotsOf(arguments) == Get(arguments, "plots", <<>>)

\* batch_create_plots_handler up to its loop (lines 1133-1148): an empty
\* array is answered at once; otherwise the locals of the loop are set, and
\* `saved` collects the files the items have written.
BatchEnter ==
    /\ comp = "server"
    /\ call.op = "batch_create_plots"
    /\ outcome = NoOutcome
    /\ LET plots == PlotsOf(call.arguments)
       IN  outcome' =
               IF Len(plots) = 0
               THEN Returned(Answer("No plots provided. Please include an array of plot configurations in the 'plots' parameter."))
               ELSE [kind |-> "running", i |-> 0, successful |-> 0, failed |-> 0,
                     results |-> <<>>, saved |-> <<>>,
                     message |-> "Batch Plot Creation\n" \o Marks.rule \o "\n\n"
                                 \o "Creating " \o ToString(Len(plots)) \o " plot(s)...\n\n"]
    /\ UNCHANGED <<comp, call, tvars>>

\* One pass of the loop (lines 1150-1177): the next item is handed to
\* create_plot_handler.  The filename is the text after the first ": " of
\* the first line holding "Output file:"; a line without ": " raises
\* IndexError after successful has been incremented, and the handler of the
\* exception increments failed.
BatchItem ==
    /\ comp = "server"
    /\ call.op = "batch_create_plots"
    /\ outcome.kind = "running"
    /\ outcome.i < Len(PlotsOf(call.arguments))
    /\ \E answer \in create_plot_handler(PlotsOf(call.arguments)[outcome.i + 1], call.world) :
          LET i == outcome.i + 1
              text == answer.text
              holding == SelectSeq(Split(text, "\n"), LAMBDA line : Contains(line, "Output file:"))
              parts == Split(holding[1], ": ")
              next(successful, failed, line, entry) ==
                  [outcome EXCEPT !.i = i, !.successful = successful, !.failed = failed,
                                  !.message = @ \o ToString(i) \o ". " \o line \o "\n",
                                  !.results = Append(@, entry),
                                  !.saved = Append(@, answer.saved)]
              entered(successful, failed) ==
                  [index |-> i, success |-> successful > failed, result |-> text]
          IN  outcome' =
                  IF Contains(text, "successfully")
                  THEN IF Len(holding) > 0
                       THEN IF Len(parts) < 2
                            THEN next(outcome.successful + 1, outcome.failed + 1,
                                      Marks.cross \o " Error: list index out of range...",
                                      [index |-> i, success |-> FALSE, error |-> "list index out of range"])
                            ELSE next(outcome.successful + 1, outcome.failed,
                                      Marks.tick \o " " \o parts[2],
                                      entered(outcome.successful + 1, outcome.failed))
                       ELSE next(outcome.successful + 1, outcome.failed,
                                 Marks.tick \o " Plot created",
                                 entered(outcome.successful + 1, outcome.failed))
                  ELSE next(outcome.successful, outcome.failed + 1,
                            Marks.cross \o " Failed: " \o SubSeq(text, 1, Min(100, Len(text))) \o "...",
                            entered(outcome.successful, outcome.failed + 1))
    /\ UNCHANGED <<comp, call, tvars>>

\* After the last item the summary is answered (lines 1179-1188); the locals
\* of the loop stay in `ran`.
BatchReturn ==
    /\ comp = "server"
    /\ call.op = "batch_create_plots"
    /\ outcome.kind = "running"
    /\ outcome.i = Len(PlotsOf(call.arguments))
    /\ outcome' =
           [kind |-> "returned",
            value |-> Answer(outcome.message \o "\n" \o Marks.rule \o "\n"
                             \o "Summary:\n"
                             \o "  " \o Marks.bullet \o " Total: " \o ToString(Len(PlotsOf(call.arguments))) \o "\n"
                             \o "  " \o Marks.bullet \o " Successful: " \o ToString(outcome.successful) \o "\n"
                             \o "  " \o Marks.bullet \o " Failed: " \o ToString(outcome.failed) \o "\n"
                             \o (IF outcome.successful > 0
                                 THEN "\n" \o Marks.tick \o " " \o ToString(outcome.successful)
                                      \o " plot(s) created successfully!"
                                 ELSE "")),
            ran |-> outcome]
    /\ UNCHANGED <<comp, call, tvars>>

NextH == CreatePlot \/ CreateFromTemplate \/ ImportPlotConfig \/ ListThemes \/ BatchEnter \/ BatchItem \/ BatchReturn

SpecH == InitH /\ [][NextH]_vars

(***************************************************************************)
(* Claims about the tool handlers.                                         *)
(***************************************************************************)
BatchDone ==
    /\ comp = "server"
    /\ call.op = "batch_create_plots"
    /\ outcome.kind = "returned"
    /\ Len(PlotsOf(call.arguments)) > 0

\* Every item of the array has been handed to create_plot_handler, in array
\* order, whatever the earlier items ended with.
BatchProcessesAll ==
    BatchDone =>
        /\ Len(outcome.ran.results) = Len(PlotsOf(call.arguments))
        /\ \A k \in 1..Len(outcome.ran.results) : outcome.ran.results[k].index = k

\* C12: a batch over a non-empty array processes every item in array order,
\* a failed item does not stop the later ones, and the tally of the report
\* satisfies successful + failed = number of items.
C12_BatchTally ==
    BatchDone =>
        /\ BatchProcessesAll
        /\ outcome.ran.successful + outcome.ran.failed = Len(PlotsOf(call.arguments))
        /\ Contains(outcome.value.text, "Total: " \o ToString(Len(PlotsOf(call.arguments))) \o "\n")
        /\ Contains(outcome.value.text, "Successful: " \o ToString(outcome.ran.successful) \o "\n")
        /\ Contains(outcome.value.text, "Failed: " \o ToString(outcome.ran.failed) \o "\n")

\* The columns the aesthetics of a build_plot call are mapped to that the
\* dataset does not have.
MissingColumns ==
    {call.rest.aes_config[r] : r \in {q \in DOMAIN call.rest.aes_config : Truthy(call.rest.aes_config[q])}}
    \ Range(ChainedData.cols)

\* C13: when an aesthetic is mapped to a column the dataset does not have,
\* build_plot raises PlotBuildError with a message that holds the name of the
\* column and "not found".
C13_ColumnValidation ==
    (BuildPlotDone /\ MissingColumns # {}) =>
        /\ outcome.kind = "raised"
        /\ outcome.error.exc = "PlotBuildError"
        /\ Contains(outcome.error.message, "not found")
        /\ \E column \in MissingColumns : Contains(outcome.error.message, column)

\* A build_plot call whose x and y are mapped to columns the dataset does not
\* have, and that returns a plot of one point layer.
UnvalidatedPlot ==
    /\ BuildPlotDone
    /\ MissingColumns = {"a", "b"}
    /\ outcome.kind = "returned"
    /\ outcome.value.mapping = [x |-> "a", y |-> "b"]
    /\ outcome.value.components = <<LayerOf(GeomConfig("point", EmptyDict))>>

ListThemesDone == comp = "server" /\ call.op = "list_themes" /\ outcome # NoOutcome

\* C14: list_themes_handler returns one text that holds "Available Themes",
\* every base theme of the theme vocabulary (so also "minimal" and "bw") in
\* sorted order, and "Customization options:".
C14_ListThemes ==
    ListThemesDone =>
        /\ outcome.kind = "returned"
        /\ LET text == outcome.value.text
               names == SortStrings(Range(theme_map))
               entry(k) == "  - " \o names[k] \o ": "
               at(k) == CHOOSE i \in 1..Len(text) :
                            /\ SubSeq(text, i, i + Len(entry(k)) - 1) = entry(k)
                            /\ \A j \in 1..(i - 1) : SubSeq(text, j, j + Len(entry(k)) - 1) # entry(k)
           IN  /\ Contains(text, "Available Themes")
               /\ Contains(text, "Customization options:")
               /\ \A k \in 1..Len(names) : Contains(text, entry(k))
               /\ \A k \in 1..(Len(names) - 1) : at(k) < at(k + 1)

TemplateHandlerDone ==
    comp = "server" /\ call.op = "create_plot_from_template" /\ outcome # NoOutcome

\* C15: after create_plot_from_template_handler returns or fails, the
\* caller's arguments (the aesthetics, the data source and the overrides
\* object) hold the keys and values they were passed with.
C15_CallerObjectsKept ==
    TemplateHandlerDone => call.arguments = call.passed

(***************************************************************************)
(* The process: the registries are built when the modules are imported,    *)
(* and then calls are served one after the other.  The state of the        *)
(* process is kept in `outcome`: the number of calls served, the           *)
(* registries as they are now, and what the last call gave; `call` is the  *)
(* last call.  Arguments arrive as values (the server decodes them from    *)
(* JSON), so no argument is an object of a registry.  A batch is the calls *)
(* of create_plot_handler for its items, one after the other.              *)
(***************************************************************************)
MaxCalls == 3

\* PALETTES and ALL_PALETTES (palettes.py), TEMPLATES (templates.py) and
\* GEOM_MAP (plot_builder.py) after import.
Registries == [palettes |-> PALETTES, all_palettes |-> ALL_PALETTES, templates |-> TEMPLATES, geoms |-> GEOM_MAP]

\* The calls the process is asked to serve.
Requests ==
    {c \in PaletteCalls :
        \/ c.op = "get_palette" /\ c.palette_name \in {"viridis", "scientific_viridis", "blue", "nonexistent"}
        \/ c.op = "list_palettes" /\ c.category \in {NoneStr, "scientific"}
        \/ c.op = "create_scale_config" /\ c.aesthetic = "fill" /\ c.palette_name = "viridis"}
    \cup {c \in TemplateCalls :
            /\ c.op = "apply_template"
            /\ c.template_name \in {"scatter_with_trend", "nonexistent"}
            /\ c.data_source.type = "inline"
            /\ DOMAIN c.aes \in {{"x", "y"}, {"x"}}
            /\ ~c.overrides.given \/ DOMAIN c.overrides.dict \in {{"geoms", "theme"}, {"aes"}}}
    \cup {c \in SuggestCalls : c.num_numeric = 2 /\ c.num_categorical = 1 /\ c.goal \in {NoneStr, "Correlation"}}
    \cup {c \in BuilderCalls :
            /\ c.op = "build_plot" /\ IsNone(c.geom_configs) /\ IsNone(c.facet_config)
            /\ ~IsNone(c.geom_config) /\ c.geom_config.type \in {"point", "ponit"}
            /\ IsNone(c.rest.coord_config) \/ ~IsNone(c.rest.theme_config)}
    \cup {c \in ServerCalls :
            /\ c.op \in {"create_plot", "create_plot_from_template", "list_themes"}
            /\ c.op = "create_plot" =>
                  "transforms" \notin DOMAIN c.arguments /\ "theme" \notin DOMAIN c.arguments
            /\ c.op = "create_plot_from_template" =>
                  /\ DOMAIN c.arguments = {"template_name", "data_source", "aes", "overrides", "labels"}
                  /\ c.arguments.template_name # "category_breakdown"
                  /\ DOMAIN c.arguments.aes # {}
                  /\ "theme" \in DOMAIN c.arguments.overrides
            /\ c.world.writable}

\* What a call gives: the outcomes of the operation.
Results(request) ==
    CASE request.op = "get_palette" -> {get_palette(request.palette_name)}
      [] request.op = "list_palettes" -> {list_palettes(request.category)}
      [] request.op = "create_scale_config" ->
            {create_scale_config(request.palette_name, request.aesthetic, request.type)}
      [] request.op = "apply_template" ->
            {apply_template(request.template_name, request.data_source, request.aes, request.overrides)}
      [] request.op = "suggest_template" ->
            {suggest_template(request.num_numeric, request.num_categorical, request.has_time, request.goal)}
      [] request.op = "build_plot" ->
            {build_plot(ChainedData, request.rest.aes_config, request.geom_config,
                        request.geom_configs, request.rest.scales, request.rest.theme_config,
                        request.facet_config, request.rest.labels_config,
                        request.rest.coord_config, request.rest.stats)}
      [] request.op = "create_plot" ->
            {Returned(a) : a \in create_plot_handler(request.arguments, request.world)}
      [] request.op = "create_plot_from_template" ->
            {Returned(r.answer) : r \in create_plot_from_template_handler(request.arguments, request.world)}
      [] request.op = "list_themes" -> {list_themes_handler}

\* A process in which apply_template updates the preset's own config dict
\* with the data source, the aesthetics and the overrides.
RegistriesAfter_UpdateInPlace(registries, request) ==
    IF request.op = "apply_template" /\ request.template_name \in TemplateNames
    THEN [registries EXCEPT !.templates =
             [k \in 1..Len(@) |->
                 IF @[k].name = request.template_name
                 THEN [@[k] EXCEPT !.config =
                          Overlay(Overlay(@, [data_source |-> request.data_source, aes |-> request.aes]),
                                  IF HasOverrides(request.overrides) THEN request.overrides.dict
                                  ELSE EmptyDict)]
                 ELSE @[k]]]
    ELSE registries

\* The registries after a call.  The objects the operations write are their
\* own: apply_template writes the dict it has just built from the preset
\* ({"data_source": ..., "aes": ..., **template["config"]}, then update);
\* create_plot_from_template_handler writes the overrides object of its
\* arguments; _build_aesthetics, _build_theme_customizations and
\* _build_labels fill dicts they create; get_palette, list_palettes,
\* create_scale_config, get_template, suggest_template, list_themes_handler
\* and create_plot_handler read only.  None is an object of a registry.
RegistriesAfter(registries, request) == registries

InitR ==
    /\ comp = "process"
    /\ call = NoCall
    /\ outcome = [kind |-> "process", served |-> 0, registries |-> Registries, last |-> NoOutcome]
    /\ TIdle

\* The process serves one more call.
Serve ==
    /\ comp = "process"
    /\ outcome.served < MaxCalls
    /\ \E request \in Requests :
          /\ call' = request
          /\ \E result \in Results(request) :
                outcome' = [outcome EXCEPT !.served = @ + 1,
                                           !.registries = RegistriesAfter(@, request),
                                           !.last = result]
    /\ UNCHANGED <<comp, tvars>>

NextR == Serve

SpecR == InitR /\ [][NextR]_vars

StepDone(transform_type) ==
    /\ comp = "transforms"
    /\ t_pc \in {"loop", "returned"}
    /\ Len(t_trace) > 0
    /\ LastTrace.index = t_i
    /\ TypeOf(t_steps[t_i]) = transform_type

\* The combinations of group_by values among the rows, missing values included.
KeyCombinations(data, group_by) == {KeyOf(data.rows[i], group_by) : i \in 1..Len(data.rows)}

\* C17: a group_summarize step that succeeds gives as many rows as there are
\* distinct combinations of group_by values among the input rows, those with
\* a missing value included, and one input gives one output order.
C17_GroupRows ==
    StepDone("group_summarize") =>
        /\ Len(t_result.rows) = Cardinality(KeyCombinations(LastTrace.input, t_steps[t_i].group_by))
        /\ Cardinality(StepResults(LastTrace.input, t_steps[t_i])) = 1

\* The order a stable sort gives: sorted, and rows with equal keys in their
\* input order.
StableOrders(data, sort_by, ascending) ==
    {p \in SortOrders(data, sort_by, ascending) :
        \A i, j \in 1..Len(data.rows) :
            (i < j /\ ~RowBefore(data.rows[p[i]], data.rows[p[j]], sort_by, ascending, 1)) => p[i] < p[j]}

\* ascending as the step gives it (default True).
AscendingOf(transform) == IF Has(transform, "ascending") THEN transform.ascending ELSE [all |-> TRUE]

\* C18: a sort step is a stable sort (rows with equal keys keep their input
\* order), gives the row index 0..n-1, and applied again to its own output
\* returns that output.
C18_StableSort ==
    StepDone("sort") =>
        /\ t_result.index = [i \in 1..Len(t_result.rows) |-> i - 1]
        /\ \E p \in StableOrders(LastTrace.input, t_steps[t_i].sort_by, AscendingOf(t_steps[t_i])) :
              t_result = ResetIndex(Take(LastTrace.input, p))
        /\ StepResults(t_result, t_steps[t_i]) = {Ok(t_result)}

\* The row index of a sorted dataset is 0..n-1, and the rows are in the
\* order asked for.
SortedAndReindexed ==
    StepDone("sort") =>
        /\ t_result.index = [i \in 1..Len(t_result.rows) |-> i - 1]
        /\ \A i, j \in 1..Len(t_result.rows) :
              i < j => ~RowBefore(t_result.rows[j], t_result.rows[i], t_steps[t_i].sort_by,
                                  AscendingOf(t_steps[t_i]), 1)

\* The step that raised is of the given type.
StepFailed(transform_type) ==
    /\ comp = "transforms"
    /\ t_pc = "raised"
    /\ TypeOf(t_steps[t_i + 1]) = transform_type

\* The dataset after the first k mutations of a mutate step: the k-th
\* expression is read against the dataset after the first k-1, and its values
\* replace the named column or are appended as a new last column.  An
\* expression that fails assigns nothing.
RECURSIVE AsOf(_, _, _)
AsOf(data, mutations, k) ==
    IF k = 0 THEN data
    ELSE LET before == AsOf(data, mutations, k - 1)
             col    == mutations[k].col
             expr   == mutations[k].expr
             cols   == IF \E c \in 1..Len(before.cols) : before.cols[c] = col
                       THEN before.cols ELSE before.cols \o <<col>>
         IN  IF ExprFails(before, expr) THEN before
             ELSE [cols  |-> cols,
                   rows  |-> [i \in 1..Len(before.rows) |->
                                [c \in Range(cols) |->
                                    IF c = col
                                    THEN EvalArith(expr.op, OperandCell(before.rows[i], expr.a),
                                                   OperandCell(before.rows[i], expr.b))
                                    ELSE before.rows[i][c]]],
                   index |-> before.index]

\* C19: a mutate step evaluates its mutations in mapping order, each
\* expression against the dataset as the earlier mutations of the step left
\* it, and assigns or overwrites the named column; the caller's dataset is
\* not changed; when an expression fails the step raises and no dataset is
\* returned.
C19_MutateInOrder ==
    /\ StepDone("mutate") =>
          LET mutations == t_steps[t_i].mutations
          IN  /\ \A k \in 1..Len(mutations) :
                    ~ExprFails(AsOf(LastTrace.input, mutations, k - 1), mutations[k].expr)
              /\ t_result = AsOf(LastTrace.input, mutations, Len(mutations))
              /\ t_trace[1].input = t_data
    /\ StepFailed("mutate") =>
          LET mutations == t_steps[t_i + 1].mutations
          IN  /\ \E k \in 1..Len(mutations) :
                    ExprFails(AsOf(LastTrace.input, mutations, k - 1), mutations[k].expr)
              /\ t_returned = NoData
              /\ t_trace[1].input = t_data

\* A mutate step whose second expression reads the column its first one
\* assigned has run: square = total * total, with total = value * value.
C19_Witness ==
    /\ StepDone("mutate")
    /\ Len(t_steps[t_i].mutations) = 2
    /\ t_steps[t_i].mutations[2].expr.a = [col |-> t_steps[t_i].mutations[1].col]
    /\ t_steps[t_i].mutations[1].col \notin Range(LastTrace.input.cols)
    /\ \E i \in 1..Len(t_result.rows) :
          /\ t_result.rows[i].value = IntCell(5)
          /\ t_result.rows[i].total = IntCell(25)
          /\ t_result.rows[i].square = IntCell(625)

\* {total: price * quantity} on prices 10, 20 and quantities 5, 3 has given
\* total 50, 60.
MutateExample ==
    /\ StepDone("mutate")
    /\ LastTrace.input.cols = <<"price", "quantity">>
    /\ [i \in 1..Len(t_result.rows) |-> t_result.rows[i].price] = <<IntCell(10), IntCell(20)>>
    /\ [i \in 1..Len(t_result.rows) |-> t_result.rows[i].quantity] = <<IntCell(5), IntCell(3)>>
    /\ [i \in 1..Len(t_result.rows) |-> t_result.rows[i].total] = <<IntCell(50), IntCell(60)>>

\* A mutate step has overwritten a column and a later expression has read
\* the new values.
MutateOverwrites ==
    /\ StepDone("mutate")
    /\ t_result.cols = LastTrace.input.cols \o <<"fourth">>
    /\ \E i \in 1..Len(t_result.rows) :
          /\ LastTrace.input.rows[i].value = IntCell(5)
          /\ t_result.rows[i].value = IntCell(25)
          /\ t_result.rows[i].fourth = IntCell(625)

\* A mutate step has failed at its second expression after the first one
\* was assigned.
MutateFailsLate ==
    /\ StepFailed("mutate")
    /\ Len(t_steps[t_i + 1].mutations) = 2
    /\ ~ExprFails(LastTrace.input, t_steps[t_i + 1].mutations[1].expr)

(***************************************************************************)
(* Repeated runs of one sample step on one dataset in one process.  The    *)
(* call holds the data, the step and generator, the permutation of the     *)
(* rows that this build's RandomState gives for the step's seed.           *)
(***************************************************************************)
MaxRuns == 2

SampleCalls ==
    LET SampleSteps ==
            {[type |-> "sample", n |-> 2],
             [type |-> "sample", n |-> 0],
             [type |-> "sample", n |-> 10],
             [type |-> "sample", n |-> 0 - 1],
             [type |-> "sample", n |-> 1, frac |-> 100],
             [type |-> "sample", frac |-> 50],
             [type |-> "sample"],
             [type |-> "sample", n |-> 2, random_state |-> 7],
             [type |-> "sample", n |-> 2, random_state |-> NoneInt]}
    IN  UNION {[op : {"sample"}, data : {data}, transform : SampleSteps,
                generator : RowOrders(Len(data.rows))] : data \in Datasets}

InitSmp ==
    /\ comp = "sample"
    /\ call \in SampleCalls
    /\ outcome = [kind |-> "runs", runs |-> <<>>]
    /\ TIdle

\* The branch of lines 374-380 on the call's data, once more.
SampleRun ==
    /\ comp = "sample"
    /\ Len(outcome.runs) < MaxRuns
    /\ \E r \in apply_sample_on(call.data,
                                IF Has(call.transform, "n") THEN call.transform.n ELSE NoneInt,
                                IF Has(call.transform, "frac") THEN call.transform.frac ELSE NoneInt,
                                IF Has(call.transform, "random_state") THEN call.transform.random_state
                                ELSE DefaultRandomState,
                                call.generator) :
          outcome' = [outcome EXCEPT !.runs = Append(@, r)]
    /\ UNCHANGED <<comp, call, tvars>>

NextSmp == SampleRun

SpecSmp == InitSmp /\ [][NextSmp]_vars

\* C20: a sample step with a count n returns min(n, row count) rows, each an
\* input row drawn at most once; n is used when frac is given too; a step
\* with neither fails; runs on the same input with the same random_state
\* (42 when the step gives none) return the same rows in the same order.
C20_Sample ==
    comp = "sample" =>
        LET n == IF Has(call.transform, "n") THEN call.transform.n ELSE NoneInt
            frac == IF Has(call.transform, "frac") THEN call.transform.frac ELSE NoneInt
            random_state == IF Has(call.transform, "random_state") THEN call.transform.random_state
                            ELSE 42
            len == Len(call.data.rows)
            runs == outcome.runs
        IN  /\ (n # NoneInt /\ n >= 0) =>
                  \A k \in 1..Len(runs) :
                      /\ runs[k].ok
                      /\ Len(runs[k].data.rows) = Min(n, len)
                      /\ \E q \in [1..Min(n, len) -> 1..len] :
                            /\ \A i, j \in 1..Min(n, len) : i # j => q[i] # q[j]
                            /\ \A i \in 1..Min(n, len) : runs[k].data.rows[i] = call.data.rows[q[i]]
            /\ (n = NoneInt /\ frac = NoneInt) => \A k \in 1..Len(runs) : ~runs[k].ok
            /\ random_state # NoneInt => \A j, k \in 1..Len(runs) : runs[j] = runs[k]

\* Two runs of sample n = 2 with the default random_state on a dataset of
\* more than two rows have returned the same two rows.
C20_Witness ==
    /\ comp = "sample"
    /\ call.transform = [type |-> "sample", n |-> 2]
    /\ Len(call.data.rows) > 2
    /\ Len(outcome.runs) = 2
    /\ outcome.runs[1].ok
    /\ Len(outcome.runs[1].data.rows) = 2
    /\ outcome.runs[2] = outcome.runs[1]

\* n = 1 with frac = 1.0 has returned one row.
SampleCountOverFrac ==
    /\ comp = "sample"
    /\ Has(call.transform, "frac")
    /\ Has(call.transform, "n")
    /\ Len(outcome.runs) > 0
    /\ outcome.runs[1].ok
    /\ Len(outcome.runs[1].data.rows) = 1

\* n = 10 has returned all the rows of a smaller dataset.
SampleClamped ==
    /\ comp = "sample"
    /\ Has(call.transform, "n")
    /\ call.transform.n > Len(call.data.rows)
    /\ Len(outcome.runs) > 0
    /\ outcome.runs[1].ok
    /\ Len(outcome.runs[1].data.rows) = Len(call.data.rows)

\* Two runs with random_state null have returned different rows.
SampleUnseeded ==
    /\ comp = "sample"
    /\ Has(call.transform, "random_state")
    /\ call.transform.random_state = NoneInt
    /\ Len(outcome.runs) = 2
    /\ outcome.runs[1] # outcome.runs[2]

(***************************************************************************)
(* Properties of the fill_na step.                                         *)
(***************************************************************************)
\* The step the loop tried last, and whether it came through.
LastStep == t_steps[LastTrace.index]

LastStepOk == t_pc # "raised" /\ t_i = LastTrace.index

FillTried ==
    /\ comp = "transforms"
    /\ Len(t_trace) > 0
    /\ TypeOf(LastStep) = "fill_na"
    /\ Has(LastStep, "fill_values")

\* The last valid cell of column c before row i, or the next one after it.
RECURSIVE ValidBefore(_, _, _)
ValidBefore(rows, c, i) ==
    IF i <= 1 THEN NA
    ELSE IF rows[i - 1][c] # NA THEN rows[i - 1][c] ELSE ValidBefore(rows, c, i - 1)

RECURSIVE ValidAfter(_, _, _)
ValidAfter(rows, c, i) ==
    IF i >= Len(rows) THEN NA
    ELSE IF rows[i + 1][c] # NA THEN rows[i + 1][c] ELSE ValidAfter(rows, c, i + 1)

\* The rows with every missing cell replaced by Fill(c, i).
Filled(data, Fill(_, _)) ==
    [i \in 1..Len(data.rows) |->
        [c \in Range(data.cols) |-> IF data.rows[i][c] = NA THEN Fill(c, i) ELSE data.rows[i][c]]]

\* C21: a fill_na step with method "forward" replaces each missing value by
\* the last valid value before it in its column, with method "backward" by
\* the next valid value after it, and with no method by the scalar or the
\* per-column fill value; no other value is changed.
C21_FillNa ==
    FillTried =>
        LET rows == LastTrace.input.rows
            method == IF Has(LastStep, "method") THEN LastStep.method ELSE NoneStr
            Forward(c, i) == ValidBefore(rows, c, i)
            Backward(c, i) == ValidAfter(rows, c, i)
            Value(c, i) == FillValue(LastStep.fill_values, c)
        IN  /\ method = "forward" => LastStepOk /\ t_result.rows = Filled(LastTrace.input, Forward)
            /\ method = "backward" => LastStepOk /\ t_result.rows = Filled(LastTrace.input, Backward)
            /\ method = NoneStr => LastStepOk /\ t_result.rows = Filled(LastTrace.input, Value)

\* The part that holds: without a method the missing values are replaced
\* by the fill value and nothing else changes; "ffill" and "bfill", where
\* the pandas at hand takes them, fill forward and backward.
FillByValueOrPandasName ==
    FillTried =>
        LET rows == LastTrace.input.rows
            method == IF Has(LastStep, "method") THEN LastStep.method ELSE NoneStr
            Forward(c, i) == ValidBefore(rows, c, i)
            Backward(c, i) == ValidAfter(rows, c, i)
            Value(c, i) == FillValue(LastStep.fill_values, c)
        IN  /\ method \in {"forward", "backward"} => ~LastStepOk
            /\ (method = "ffill" /\ LastStepOk) => t_result.rows = Filled(LastTrace.input, Forward)
            /\ (method = "bfill" /\ LastStepOk) => t_result.rows = Filled(LastTrace.input, Backward)
            /\ method = NoneStr => LastStepOk /\ t_result.rows = Filled(LastTrace.input, Value)

\* A fill_na step with method "forward" has raised on a dataset with a
\* missing value.
FillForwardRaised ==
    /\ FillTried
    /\ Has(LastStep, "method")
    /\ LastStep.method = "forward"
    /\ t_pc = "raised"
    /\ t_error.cause = "Fill NA error"
    /\ \E i \in 1..Len(LastTrace.input.rows) :
          \E c \in Range(LastTrace.input.cols) : LastTrace.input.rows[i][c] = NA

\* A step with method "ffill" has filled a missing value with the value
\* of the row before.
FfillFilled ==
    /\ FillTried
    /\ Has(LastStep, "method")
    /\ LastStep.method = "ffill"
    /\ LastStepOk
    /\ \E i \in 2..Len(t_result.rows) :
          \E c \in Range(t_result.cols) :
              /\ LastTrace.input.rows[i][c] = NA
              /\ t_result.rows[i][c] = t_result.rows[i - 1][c]
              /\ t_result.rows[i][c] # NA

(***************************************************************************)
(* Properties of scale resolution.                                         *)
(***************************************************************************)
\* build_plot was called with a scales list and came as far as the scales:
\* the layers and the stats resolved.
ScalesTried ==
    /\ BuildPlotDone
    /\ ~IsNone(call.rest.scales)
    /\ ResolveLayers(call.geom_config, call.geom_configs).kind = "returned"
    /\ \A k \in 1..Len(ResolveLayers(call.geom_config, call.geom_configs).value) :
          build_geom(ResolveLayers(call.geom_config, call.geom_configs).value[k]).kind = "returned"
    /\ IsNone(call.rest.stats) \/
          \A k \in 1..Len(call.rest.stats.items) : build_stat(call.rest.stats.items[k]).kind = "returned"

\* The constructor name of the k-th scales entry.
ScaleName(k) ==
    "scale_" \o Lower(call.rest.scales.items[k].aesthetic) \o "_" \o Lower(call.rest.scales.items[k].type)

Unsupported == {k \in 1..Len(call.rest.scales.items) : ScaleName(k) \notin Range(scale_map)}

IsScale(component) == component.kind = "scale"

\* C22: scale resolution maps each scales entry, in list order and without
\* merging duplicates, from its lowercased (aesthetic, type) pair to one of
\* the supported scale constructors; a pair outside that set fails with an
\* error that lists the supported scale names.
C22_ScaleResolution ==
    ScalesTried =>
        IF Unsupported = {}
        THEN outcome.kind = "returned" =>
                SelectSeq(outcome.value.components, IsScale) =
                    [k \in 1..Len(call.rest.scales.items) |->
                        [kind |-> "scale", type |-> ScaleName(k),
                         params |-> call.rest.scales.items[k].params]]
        ELSE /\ outcome.kind = "raised"
             /\ \A k \in 1..Len(scale_map) : Contains(outcome.error.message, scale_map[k])

\* The part that holds: one scale per entry in list order, duplicates kept;
\* the first unsupported pair fails the build with "Unknown scale: " and the
\* name that was looked up, and nothing else.
ScalesInOrder ==
    ScalesTried =>
        IF Unsupported = {}
        THEN outcome.kind = "returned" =>
                SelectSeq(outcome.value.components, IsScale) =
                    [k \in 1..Len(call.rest.scales.items) |->
                        [kind |-> "scale", type |-> ScaleName(k),
                         params |-> call.rest.scales.items[k].params]]
        ELSE /\ outcome.kind = "raised"
             /\ outcome.error.message =
                    "Failed to build plot: Unknown scale: "
                        \o ScaleName(CHOOSE k \in Unsupported : \A j \in Unsupported : k <= j)

\* An unsupported pair after a supported one has failed the build.
UnknownScaleRaised ==
    /\ ScalesTried
    /\ Len(call.rest.scales.items) = 2
    /\ Unsupported = {2}
    /\ outcome = Raised(PlotBuildError("Failed to build plot: Unknown scale: scale_color_viridis"))

\* Two entries for the same pair have given two scales.
DuplicateScalesKept ==
    /\ ScalesTried
    /\ outcome.kind = "returned"
    /\ Len(SelectSeq(outcome.value.components, IsScale)) = 3
    /\ SelectSeq(outcome.value.components, IsScale)[1] = SelectSeq(outcome.value.components, IsScale)[2]

(***************************************************************************)
(* The suggestion helpers called on their own: the columns of              *)
(* test_column_name_suggestion, the geometry and theme vocabularies and an *)
(* empty vocabulary, with queries that are members, misspellings at        *)
(* several distances, a prefix and unrelated words.                        *)
(***************************************************************************)
SuggestionCalls ==
    LET Vocabularies ==
            {<<>>, <<"age", "height", "weight", "category", "value">>, GEOM_MAP, theme_map}
        Queries ==
            {"hieght", "Age", "categoy", "weigt", "a", "height", "value", "scater", "histogram",
             "ponit", "minimal", "minmal", "grye", "xyz", ""}
    IN  [op : {"suggest_column_name", "suggest_geom_type", "suggest_theme_name"},
         query : Queries, vocabulary : Vocabularies]

InitE ==
    /\ comp = "error_utils"
    /\ call \in SuggestionCalls
    /\ outcome = NoOutcome
    /\ TIdle

SuggestColumnName ==
    /\ comp = "error_utils"
    /\ call.op = "suggest_column_name"
    /\ outcome = NoOutcome
    /\ outcome' = Returned(suggest_column_name(call.query, call.vocabulary))
    /\ UNCHANGED <<comp, call, tvars>>

SuggestGeomType ==
    /\ comp = "error_utils"
    /\ call.op = "suggest_geom_type"
    /\ outcome = NoOutcome
    /\ outcome' = Returned(suggest_geom_type(call.query, call.vocabulary))
    /\ UNCHANGED <<comp, call, tvars>>

SuggestThemeName ==
    /\ comp = "error_utils"
    /\ call.op = "suggest_theme_name"
    /\ outcome = NoOutcome
    /\ outcome' = Returned(suggest_theme_name(call.query, call.vocabulary))
    /\ UNCHANGED <<comp, call, tvars>>

NextE == SuggestColumnName \/ SuggestGeomType \/ SuggestThemeName

SpecE == InitE /\ [][NextE]_vars

SuggestionDone == comp = "error_utils" /\ outcome # NoOutcome

\* The similarity of entry to query is at least the similarity of other.
AtLeastAsSimilar(entry, other, query) ==
    Ratio(entry, query).num * Ratio(other, query).den >= Ratio(other, query).num * Ratio(entry, query).den

\* C23: a suggestion function returns none for an empty vocabulary;
\* otherwise none, or one member of the vocabulary whose similarity to the
\* query is at least the threshold (0.6 for columns, 0.5 for geometries and
\* themes) and the highest in the vocabulary; a query that is a member is
\* returned unchanged; the result is a function of the inputs.
C23_Suggestion ==
    SuggestionDone =>
        LET result == outcome.value
            tenths == IF call.op = "suggest_column_name" THEN 6 ELSE 5
        IN  /\ outcome.kind = "returned"
            /\ Len(call.vocabulary) = 0 => result = NoneStr
            /\ result # NoneStr =>
                  /\ \E k \in 1..Len(call.vocabulary) : call.vocabulary[k] = result
                  /\ 10 * Ratio(result, call.query).num >= tenths * Ratio(result, call.query).den
                  /\ \A k \in 1..Len(call.vocabulary) :
                        AtLeastAsSimilar(result, call.vocabulary[k], call.query)
            /\ (\E k \in 1..Len(call.vocabulary) : call.vocabulary[k] = call.query) =>
                  result = call.query
            /\ \A other \in SuggestionCalls :
                  (other = call) =>
                      result = CASE other.op = "suggest_column_name" ->
                                        suggest_column_name(other.query, other.vocabulary)
                                 [] other.op = "suggest_geom_type" ->
                                        suggest_geom_type(other.query, other.vocabulary)
                                 [] other.op = "suggest_theme_name" ->
                                        suggest_theme_name(other.query, other.vocabulary)

\* "weigt" has been looked up among the test's columns and "weight" was
\* returned, not "height", which comes first and is close enough too.
C23_Witness ==
    /\ SuggestionDone
    /\ call.op = "suggest_column_name"
    /\ call.query = "weigt"
    /\ call.vocabulary = <<"age", "height", "weight", "category", "value">>
    /\ 10 * Ratio("height", "weigt").num >= 6 * Ratio("height", "weigt").den
    /\ outcome.value = "weight"

\* The suggestions of the test: hieght -> height, Age -> age, categoy -> category.
SuggestionsOfTest ==
    /\ suggest_column_name("hieght", <<"age", "height", "weight", "category", "value">>) = "height"
    /\ suggest_column_name("Age", <<"age", "height", "weight", "category", "value">>) = "age"
    /\ suggest_column_name("categoy", <<"age", "height", "weight", "category", "value">>) = "category"
    /\ suggest_geom_type("histogram", GEOM_MAP) = "histogram"

\* The thresholds differ: "a" against "age" has similarity 0.5, which is
\* enough for a geometry or theme lookup and not for a column lookup.
ThresholdsDiffer ==
    /\ SuggestionDone
    /\ call.query = "a"
    /\ call.vocabulary = <<"age", "height", "weight", "category", "value">>
    /\ call.op # "suggest_column_name"
    /\ outcome.value = "age"
    /\ suggest_column_name(call.query, call.vocabulary) = NoneStr

\* A lookup in a vocabulary that is not empty has returned none.
NothingCloseEnough ==
    /\ SuggestionDone
    /\ Len(call.vocabulary) > 0
    /\ outcome.value = NoneStr

\* C24: the plan build_plot returns has exactly one layer per entry of the
\* geometry list, in the order of the list (a later entry is drawn on top of
\* an earlier one), each with its entry's parameter bag unchanged.
C24_LayerOrder ==
    (BuildPlotDone /\ outcome.kind = "returned" /\ ~Falsy(call.geom_configs)) =>
        LET entries == call.geom_configs.items
            components == outcome.value.components
        IN  /\ Cardinality({k \in 1..Len(components) : components[k].kind = "geom"}) = Len(entries)
            /\ \A k \in 1..Len(entries) :
                  /\ components[k].kind = "geom"
                  /\ components[k].type = Lower(entries[k].type)
                  /\ components[k].params = entries[k].params

\* A list of two entries of different kinds, one with parameters, has been
\* built: the first component is the point layer, the second the line layer
\* with size 2.
C24_Witness ==
    /\ BuildPlotDone
    /\ outcome.kind = "returned"
    /\ call.geom_configs = ListOf(<<GeomConfig("point", EmptyDict), GeomConfig("LINE", [size |-> "2"])>>)
    /\ outcome.value.components[1] = [kind |-> "geom", type |-> "point", params |-> EmptyDict]
    /\ outcome.value.components[2] = [kind |-> "geom", type |-> "line", params |-> [size |-> "2"]]

\* A plot with stats has one more component per stats entry, added after
\* the geometry layers.
StatsAfterLayers ==
    /\ BuildPlotDone
    /\ outcome.kind = "returned"
    /\ ~IsNone(call.rest.stats)
    /\ ~Falsy(call.geom_configs)
    /\ Len(call.geom_configs.items) = 2
    /\ outcome.value.components[3].kind = "stat"

(***************************************************************************)
(* Properties of create_plot_handler.  The stages of a call are worked out *)
(* from its arguments and its world, apart from the handler, and compared  *)
(* with the answer the handler gave.                                       *)
(***************************************************************************)
CreatePlotDone == comp = "server" /\ call.op = "create_plot" /\ outcome # NoOutcome

StartsWith(s, prefix) == Len(prefix) <= Len(s) /\ SubSeq(s, 1, Len(prefix)) = prefix

\* `key in arguments and arguments[key]` for the arguments of the call.
ArgumentGiven(key) == key \in DOMAIN call.arguments /\ DOMAIN call.arguments[key] # {}

\* The configurations of an optional argument, parsed: none, one, or one
\* for each entry of a list.
ParsedOne(key, model) ==
    IF ArgumentGiven(key) THEN <<ParseModel(model, call.arguments[key])>> ELSE <<>>

ParsedEach(key, model) ==
    IF ArgumentGiven(key)
    THEN [k \in 1..Len(call.arguments[key]) |-> ParseModel(model, call.arguments[key][k])]
    ELSE <<>>

AllReturned(outcomes) == \A k \in 1..Len(outcomes) : outcomes[k].kind = "returned"

\* The data source, the aesthetics and the geometry descriptors validate.
RequiredValid ==
    /\ "data_source" \in DOMAIN call.arguments
    /\ ParseModel("DataSource", call.arguments.data_source).kind = "returned"
    /\ "aes" \in DOMAIN call.arguments
    /\ AllReturned(ParsedOne("geom", "GeomConfig"))
    /\ AllReturned(ParsedEach("geoms", "GeomConfig"))

GeometryGiven == ArgumentGiven("geom") \/ ArgumentGiven("geoms")

\* The optional configurations and the output configuration validate.
OptionalValid ==
    /\ AllReturned(ParsedEach("scales", "ScaleConfig"))
    /\ AllReturned(ParsedOne("theme", "ThemeConfig"))
    /\ AllReturned(ParsedOne("facets", "FacetConfig"))
    /\ AllReturned(ParsedOne("labels", "LabelsConfig"))
    /\ AllReturned(ParsedOne("coords", "CoordConfig"))
    /\ AllReturned(ParsedEach("stats", "StatConfig"))
    /\ ParseModel("OutputConfig", Get(call.arguments, "output", EmptyDict)).kind = "returned"

Loaded == load_data(ParseModel("DataSource", call.arguments.data_source).value, call.world)

\* The outcomes the transformation stage can have.
Transformed ==
    IF ArgumentGiven("transforms") THEN apply_transforms(Loaded.value, call.arguments.transforms)
    ELSE {Loaded}

\* The outcome of the building stage on a dataset.
Built(data) ==
    LET One(outcomes) == IF Len(outcomes) = 0 THEN None ELSE outcomes[1].value
        Each(outcomes) ==
            IF Len(outcomes) = 0 THEN None ELSE ListOf([k \in 1..Len(outcomes) |-> outcomes[k].value])
    IN  build_plot(data, ParseModel("Aesthetics", call.arguments.aes).value,
                   One(ParsedOne("geom", "GeomConfig")), Each(ParsedEach("geoms", "GeomConfig")),
                   Each(ParsedEach("scales", "ScaleConfig")), One(ParsedOne("theme", "ThemeConfig")),
                   One(ParsedOne("facets", "FacetConfig")), One(ParsedOne("labels", "LabelsConfig")),
                   One(ParsedOne("coords", "CoordConfig")), Each(ParsedEach("stats", "StatConfig")))

\* The outcomes of the saving stage on a built plot.
Saved(plot) ==
    {save_plot(plot, ParseModel("OutputConfig", Get(call.arguments, "output", EmptyDict)).value,
               call.world, uuid) : uuid \in call.world.uuids}

\* The stage at which the answer was made, by the text it begins with.
AnswerStage ==
    LET text == outcome.value.text
    IN  CASE StartsWith(text, "Unexpected error: ") -> "validation"
          [] StartsWith(text, "Error: Either 'geom' or 'geoms' must be provided.") -> "geometry"
          [] StartsWith(text, "Data loading error: ") -> "loading"
          [] StartsWith(text, "Data transformation error: ") -> "transforms"
          [] StartsWith(text, "Plot building error: ") -> "building"
          [] StartsWith(text, "Plot saving error: ") -> "saving"
          [] StartsWith(text, "Plot created successfully!") -> "done"
          [] OTHER -> "none"

\* The stages from loading on: each answer is made at the first of them
\* that fails, and the success message after the plot was saved.
LaterStages ==
    LET stage == AnswerStage
        saved == outcome.value.saved
        datasets == {t.value : t \in {u \in Transformed : u.kind = "returned"}}
        plots == {Built(data).value : data \in {d \in datasets : Built(d).kind = "returned"}}
    IN  /\ stage = "loading" => Loaded.kind = "raised" /\ saved = NoneStr
        /\ stage \in {"transforms", "building", "saving", "done"} => Loaded.kind = "returned"
        /\ stage = "transforms" => saved = NoneStr /\ \E t \in Transformed : t.kind = "raised"
        /\ stage = "building" => saved = NoneStr /\ \E d \in datasets : Built(d).kind = "raised"
        /\ stage = "saving" =>
              saved = NoneStr /\ \E plot \in plots : \E r \in Saved(plot) : r.kind = "raised"
        /\ stage = "done" =>
              \E plot \in plots : \E r \in Saved(plot) : r.kind = "returned" /\ saved = r.value.path

\* The statement as the claim words it: validation of the arguments is one
\* stage before the geometry check, and a text that contains the success
\* phrase stands for a saved plot.
C25_Original ==
    CreatePlotDone =>
        /\ outcome.kind = "returned"
        /\ AnswerStage # "none"
        /\ AnswerStage = "validation" => ~(RequiredValid /\ OptionalValid)
        /\ AnswerStage = "geometry" => RequiredValid /\ OptionalValid /\ ~GeometryGiven
        /\ AnswerStage \notin {"validation", "geometry"} =>
              RequiredValid /\ OptionalValid /\ GeometryGiven /\ LaterStages
        /\ Contains(outcome.value.text, "Plot created successfully") => outcome.value.saved # NoneStr

\* C25: create_plot_handler never raises and answers every call with one
\* text.  Its stages run in the order: validation of the data source, the
\* aesthetics and the geometry descriptors; geometry presence check;
\* validation of the other configurations; data loading; transforms; plot
\* building; saving.  A stage runs only if every earlier one succeeded, the
\* answer is the message of the first stage that fails, and an answer that
\* begins with "Plot created successfully" is given only after the plot was
\* saved.
C25_FailFast ==
    CreatePlotDone =>
        /\ outcome.kind = "returned"
        /\ AnswerStage # "none"
        /\ AnswerStage = "validation" => ~RequiredValid \/ (GeometryGiven /\ ~OptionalValid)
        /\ AnswerStage = "geometry" => RequiredValid /\ ~GeometryGiven
        /\ AnswerStage \notin {"validation", "geometry"} =>
              RequiredValid /\ GeometryGiven /\ OptionalValid /\ LaterStages
        /\ StartsWith(outcome.value.text, "Plot created successfully") => outcome.value.saved # NoneStr

\* A call whose data loaded and whose transforms failed has been answered
\* with the transformation error, and nothing was built or saved.
C25_Witness ==
    /\ CreatePlotDone
    /\ RequiredValid /\ GeometryGiven /\ OptionalValid
    /\ Loaded.kind = "returned"
    /\ \A t \in Transformed : t.kind = "raised"
    /\ StartsWith(outcome.value.text, "Data transformation error: Transform 1 (sort) failed: ")
    /\ outcome.value.saved = NoneStr

\* A call without a geometry and with an output format that does not
\* validate has been answered with the geometry message.
GeometryBeforeOutput ==
    /\ CreatePlotDone
    /\ RequiredValid /\ ~GeometryGiven /\ ~OptionalValid
    /\ AnswerStage = "geometry"

\* The data loading error of a file named like the success message.
PhraseInError ==
    /\ CreatePlotDone
    /\ AnswerStage = "loading"
    /\ Contains(outcome.value.text, "Plot created successfully")
    /\ outcome.value.saved = NoneStr

\* A call has gone through every stage: the plot is saved.
PlotSaved ==
    /\ CreatePlotDone
    /\ AnswerStage = "done"
    /\ outcome.value.saved # NoneStr
    /\ call.world.writable

(***************************************************************************)
(* The presets through build_plot.  create_plot_from_template_handler      *)
(* expands the preset with apply_template and hands the specification to   *)
(* create_plot_handler, where build_plot resolves its geometries, scales,  *)
(* theme, coordinates and facets; a resolver that refuses one of them      *)
(* raises PlotBuildError, answered as a plot building error.               *)
(***************************************************************************)

\* A preset of the registry has been called with exactly its required
\* aesthetics and no overrides, labels or output.
PresetDone ==
    /\ TemplateHandlerDone
    /\ DOMAIN call.passed = {"template_name", "data_source", "aes"}
    /\ call.passed.template_name \in TemplateNames
    /\ DOMAIN call.passed.aes = Range(TemplateOf(call.passed.template_name).required_aesthetics)

\* The specification the handler hands on.
PresetConfig ==
    apply_template(call.passed.template_name, call.passed.data_source, call.passed.aes,
                   Overrides(EmptyDict)).value

\* C26: every preset, expanded with exactly its required aesthetics and no
\* overrides, is a specification whose geometries, scales, theme,
\* coordinates and facets build_plot's resolvers accept: the call does not
\* end in a plot building error.
C26_PresetsResolve ==
    PresetDone => ~StartsWith(outcome.value.text,
                              "Plot created using template: " \o call.passed.template_name
                              \o "\n\nPlot building error: ")

\* What holds instead: the presets without facets resolve, and are saved
\* where the output directory is writable.
PresetsWithoutFacetsResolve ==
    PresetDone /\ "facets" \notin DOMAIN PresetConfig
        => /\ ~Contains(outcome.value.text, "Plot building error: ")
           /\ call.world.writable => outcome.value.saved # NoneStr

\* before_after holds a wrap facet without a `facets` formula, which
\* _build_facet refuses.
BeforeAfterRefused ==
    /\ PresetDone
    /\ call.passed.template_name = "before_after"
    /\ call.passed.aes = [x |-> "category", y |-> "value"]
    /\ PresetConfig.facets = [type |-> "wrap", params |-> [ncol |-> "2"]]
    /\ StartsWith(outcome.value.text,
                  "Plot created using template: before_after\n\nPlot building error: Failed to build plot: facet_wrap requires 'facets' parameter")
    /\ outcome.value.saved = NoneStr

\* The eight other presets are saved.
OtherPresetSaved ==
    /\ PresetDone
    /\ call.passed.template_name = "correlation_heatmap"
    /\ outcome.value.saved # NoneStr

(***************************************************************************)
(* The aesthetics and the data source of an expanded preset.  The          *)
(* required roles are checked against the `aes` argument before the        *)
(* overrides are merged, and config.update(overrides) replaces any key,    *)
(* "aes" and "data_source" included.                                       *)
(***************************************************************************)

\* apply_template has returned a specification.
ApplyReturned == ApplyDone /\ outcome.kind = "returned"

\* The required roles of the called template.
RequiredRoles == Range(TemplateOf(call.template_name).required_aesthetics)

\* C27: whenever apply_template succeeds, whatever the overrides hold, the
\* aesthetics of the returned specification contain every required role of
\* the template and its data source is the one that was supplied.
C27_RolesAndSourceKept ==
    ApplyReturned =>
        /\ RequiredRoles \subseteq DOMAIN outcome.value.aes
        /\ outcome.value.data_source = call.data_source

\* What holds instead: the aesthetics and the data source are the ones
\* supplied unless the overrides name them, and then they are the ones of
\* the overrides.
OverridesReplaceSuppliedKeys ==
    ApplyReturned =>
        /\ outcome.value.aes = IF "aes" \in OverrideKeys THEN call.overrides.dict.aes
                               ELSE call.aes
        /\ outcome.value.data_source =
               IF "data_source" \in OverrideKeys THEN call.overrides.dict.data_source
               ELSE call.data_source
        /\ "aes" \notin OverrideKeys => RequiredRoles \subseteq DOMAIN outcome.value.aes

\* Overrides with an "aes" of x alone leave a preset that requires x and y
\* without y.
RequiredRoleLost ==
    /\ ApplyReturned
    /\ call.template_name = "scatter_with_trend"
    /\ DOMAIN call.aes = {"x", "y"}
    /\ call.overrides = Overrides([aes |-> [k \in {"x"} |-> "other"]])
    /\ DOMAIN outcome.value.aes = {"x"}

\* Overrides with a "data_source" replace the one supplied.
DataSourceReplaced ==
    /\ ApplyReturned
    /\ call.data_source = [type |-> "inline", path |-> NoneStr]
    /\ outcome.value.data_source = [type |-> "file", path |-> "other.csv"]

(***************************************************************************)
(* The refinement by the goal against the result without a goal.  The      *)
(* goal filters the names the rules appended (lines 256-270) before the    *)
(* list is cut to five (line 280), so a name after the fifth can be        *)
(* returned with a goal and not without.                                   *)
(***************************************************************************)

\* The result of suggest_template for the data shape of the call, no goal given.
Unrefined ==
    suggest_template(call.num_numeric, call.num_categorical, call.has_time, NoneStr).value

\* C28: every name that suggest_template returns with a goal is also
\* returned for the same data shape without a goal.
C28_GoalOnlyRemoves ==
    (SuggestDone /\ Truthy(call.goal)) => Range(outcome.value) \subseteq Range(Unrefined)

\* What holds instead: the names returned with a goal are names of
\* applicable rules, and are among the names returned without a goal
\* whenever at most five rules apply.
GoalKeepsApplicable ==
    (SuggestDone /\ Truthy(call.goal)) =>
        /\ Range(outcome.value) \subseteq Range(Applicable)
        /\ Len(Applicable) <= MaxSuggestions => Range(outcome.value) \subseteq Range(Unrefined)

\* With a time column, three numeric columns and one categorical column,
\* the goal "Correlation" returns correlation_heatmap, the sixth of seven
\* applicable names, which the result without a goal leaves out.
GoalSurfacesSixth ==
    /\ SuggestDone
    /\ call.goal = "Correlation"
    /\ call.has_time /\ call.num_numeric = 3 /\ call.num_categorical = 1
    /\ "correlation_heatmap" \in Range(outcome.value)
    /\ "correlation_heatmap" \notin Range(Unrefined)
    /\ Len(Unrefined) = MaxSuggestions

\* With at most five applicable names the goal only removes.
GoalRemoves ==
    /\ SuggestDone
    /\ call.goal = "Show the trend"
    /\ call.has_time /\ call.num_numeric = 2 /\ call.num_categorical = 1
    /\ outcome.value = <<"time_series", "multi_line">>
    /\ Range(outcome.value) \subseteq Range(Unrefined)
    /\ Range(outcome.value) # Range(Unrefined)

(***************************************************************************)
(* The tally of a batch against the plots saved.  An item is counted by    *)
(* the text of its answer (line 1155): `"successfully" in result[0].text`. *)
(***************************************************************************)

\* The items of the batch whose plot create_plot_handler saved.
SavedItems == {k \in 1..Len(outcome.ran.saved) : outcome.ran.saved[k] # NoneStr}

\* The items that the loop added to `successful`: those whose answer holds
\* the word (an item that ended in the loop's exception handler keeps no
\* answer, and such batches are left aside).
CountedSuccessful ==
    {k \in 1..Len(outcome.ran.results) :
        Contains(outcome.ran.results[k].result, "successfully")}

\* C29: batch_create_plots counts an item as successful if and only if
\* create_plot saved that item's plot; an item whose loading, transform,
\* build or save failed is counted as failed whatever its error message
\* contains.
C29_SuccessIffSaved ==
    BatchDone /\ (\A k \in 1..Len(outcome.ran.results) : "result" \in DOMAIN outcome.ran.results[k]) =>
        /\ CountedSuccessful = SavedItems
        /\ outcome.ran.successful = Cardinality(SavedItems)
        /\ outcome.ran.failed = Len(PlotsOf(call.arguments)) - Cardinality(SavedItems)

\* What holds instead: every saved item is counted successful, and so is
\* every item whose answer holds the word "successfully".
SavedItemsCounted ==
    BatchDone =>
        /\ outcome.ran.successful >= Cardinality(SavedItems)
        /\ \A k \in SavedItems : Contains(outcome.ran.results[k].result, "successfully")

\* A batch of one item whose file "successfully.csv" does not exist: nothing
\* is saved and the item is counted successful.
FailedItemCountedSuccessful ==
    /\ BatchDone
    /\ Len(PlotsOf(call.arguments)) = 1
    /\ PlotsOf(call.arguments)[1].data_source = [type |-> "file", path |-> "successfully.csv"]
    /\ StartsWith(outcome.ran.results[1].result, "Data loading error: ")
    /\ SavedItems = {}
    /\ outcome.ran.successful = 1 /\ outcome.ran.failed = 0
    /\ Contains(outcome.value.text, "1 plot(s) created successfully!")

\* A batch whose items are saved or fail with a plain message is tallied
\* as the claim says.
PlainBatchTallied ==
    /\ BatchDone
    /\ Len(PlotsOf(call.arguments)) = 2
    /\ SavedItems = {1}
    /\ outcome.ran.successful = 1 /\ outcome.ran.failed = 1

(***************************************************************************)
(* The handlers that delegate to create_plot_handler.  Both take the text  *)
(* of its answer, whatever it says, and put their own first line before    *)
(* it (lines 902-913 and 977-986); create_plot_handler answers its         *)
(* failures as texts and raises nothing, so no except clause is entered.   *)
(***************************************************************************)

ImportDone == comp = "server" /\ call.op = "import_plot_config" /\ outcome # NoOutcome

\* The answer states that a plot was created.
StatesCreated ==
    \/ StartsWith(outcome.value.text, "Plot created from imported configuration!")
    \/ StartsWith(outcome.value.text, "Plot created using template: ")

\* C30: import_plot_config_handler and create_plot_from_template_handler
\* answer that a plot was created only when the create_plot call they
\* delegate to succeeded (the plot was saved); when it fails they answer
\* with an error instead.
C30_CreatedOnlyOnSuccess ==
    (ImportDone \/ TemplateHandlerDone) =>
        (StatesCreated => outcome.value.saved # NoneStr)

\* What holds instead: the first line is put before every answer of the
\* delegated call, and the answer that follows it is the success message
\* exactly when the plot was saved.
CreatedLineOnEveryDelegation ==
    (ImportDone \/ TemplateHandlerDone) /\ StatesCreated =>
        (Contains(outcome.value.text, "\n\nPlot created successfully!\n\nOutput file: ")
            <=> outcome.value.saved # NoneStr)

\* An imported configuration whose data file is missing: the answer opens
\* with the created line and goes on with the data loading error.
ImportStatesCreatedOnFailure ==
    /\ ImportDone
    /\ call.arguments = [config_path |-> "missing_data.json"]
    /\ outcome.value.text =
           "Plot created from imported configuration!\n\nConfig file: missing_data.json\nOverrides applied: 0 parameter(s)\n\nData loading error: Failed to load data: File not found: /srv/missing.csv\n\nPlease check:\n- File path or URL is correct\n- File format is supported\n- Data is properly formatted"
    /\ outcome.value.saved = NoneStr

\* A template call whose output directory cannot be written.
TemplateStatesCreatedOnFailure ==
    /\ TemplateHandlerDone
    /\ "template_name" \in DOMAIN call.passed
    /\ call.passed.template_name = "scatter_with_trend"
    /\ ~call.world.writable
    /\ StartsWith(outcome.value.text,
                  "Plot created using template: scatter_with_trend\n\nPlot saving error: ")
    /\ outcome.value.saved = NoneStr

\* An import that succeeds, and the failures before the delegation, which
\* are answered without the created line.
ImportSaved ==
    /\ ImportDone
    /\ call.arguments = [config_path |-> "plot.json", overrides |-> [labels |-> [title |-> "Other"]]]
    /\ StartsWith(outcome.value.text,
                  "Plot created from imported configuration!\n\nConfig file: plot.json\nOverrides applied: 1 parameter(s)\n\nPlot created successfully!")
    /\ outcome.value.saved # NoneStr

ImportNotDelegated ==
    /\ ImportDone
    /\ "config_path" \in DOMAIN call.arguments
    /\ call.arguments.config_path \in {"broken.json", "nowhere.json"}
    /\ ~StatesCreated

=============================================================================
